---- MODULE Spec2Model ----
(***************************************************************************)
(* Model of the upload pipeline (services/upload_manager.py) and of the    *)
(* history store it records into (lib/data/history.py).                    *)
(*                                                                         *)
(* Spec      : one run of process_video_files over a set of local files    *)
(* SpecTwice : the same run made twice, the remote and the files healthy   *)
(* SpecRetry : one run against a remote whose upload attempts may fail     *)
(*             transiently (lib/video/uploader.py)                         *)
(* SpecLive  : one run over a short list, the tasks scheduled fairly       *)
(* SpecStore : the history store under its maintenance operations          *)
(* SpecPlaylist : worker threads resolving playlists (lib/video/playlist.py) *)
(* SpecSync : the store compared with the channel (services/sync_manager.py) *)
(* SpecFix : sync --fix, compare() then fix_missing_remote()                *)
(* SpecRetryCommand : the retry command, one run per playlist group         *)
(***************************************************************************)
EXTENDS Integers, Sequences, FiniteSets, TLC

(* ------------------------------ bounds -------------------------------- *)
NFiles == 3
MaxWorkers == 2
MaxImport == 2
MaxVideos == 2
MaxRetry == 8
MaxRetryFiles == 2
MaxLiveFiles == 2
MaxThreads == 2
MaxRemote == 2
MaxStored == 2
MaxTargets == 2
MaxBytes == 4

(* ------------------------- program constants -------------------------- *)
COST_PER_UPLOAD == 1600
\* page size of the playlists listing
maxResults == 50
daily_quota_limit == 10000

\* SQL NULL / Python None in a TEXT column
NULL == "NULL"
\* video_id is modelled as a number; 0 is NULL (no video id)
NO_VIDEO == 0
\* initial value of the local variable file_hash in process_file
UNKNOWN == "unknown"

Files == 1..NFiles

\* The local files. Files 1 and 2 have the same content (same digest), the
\* others have contents of their own; every file has a path of its own.
ContentHash(f) == <<"h1", "h1", "h2", "h3", "h4", "h5">>[f]
PathOf(f) == <<"p1", "p2", "p3", "p4", "p5", "p6">>[f]
\* whether a sibling image (.jpg/.jpeg/.png) lies beside the video
HasThumbnail(f) == f = 1

\* the folder a file lies in, and its name (numbers ordered as the names are)
ParentOf(f) == <<"A", "A", "B", "A", "B", "A">>[f]
NameOf(f) == <<2, 1, 1, 3, 2, 4>>[f]

Hashes == {ContentHash(f) : f \in Files}
Paths == {PathOf(f) : f \in Files}

VARIABLES
  rows,          \* the uploads table, in insertion (rowid) order
  legacy_json,   \* records of upload_history.json beside the database
  now,           \* wall clock, in days
  phase,         \* run: "idle" | "running" | "returned"; store: "closed" | "open"
  video_files,   \* the file list of the run
  workers, dry_run, force, simple_check, quota_limit,
  sem,           \* free slots of the semaphore
  waitq,         \* FIFO of tasks waiting for a slot
  stop_event,
  pc,            \* per file: position of its process_file task
  file_hash,     \* per file: the local variable file_hash
  calls,         \* per file: upload_video calls started, over all runs
  nvid,          \* video ids handed out by the remote so far
  nruns,         \* runs started so far
  run_limit,     \* runs the caller makes
  env,           \* "any" | "healthy" | "flaky": what uploads and file reads may answer
  retry_count,   \* config.upload.retry_count
  folder_map,    \* file -> <<index, total>> within its folder, built before the tasks
  ordinal,       \* per file: the <<index, total>> handed to the metadata generator
  \* the playlist manager and the account's playlists
  pl_remote,     \* the playlists of the account, in listing order
  pl_cache,      \* _playlist_cache: title -> playlist id (0: no entry)
  pl_initialized, \* _initialized
  pl_pc,         \* per thread: position in get_or_create_playlist / attach
  pl_title,      \* per thread: the title it resolves
  pl_id,         \* per thread: the playlist id it got (0: None)
  sync_report,   \* what the last compare() returned
  fix_result,    \* the items and the counts of the last fix_missing_remote()
  pending,       \* retry: the playlist groups not dispatched yet
  xfer,          \* one attempt of upload_video: the chunk loop of _execute_upload
  rows_before,   \* reupload: the table when the command began
  attempts,      \* per file: attempts started by its upload_video call
  attempt_result, \* per file: how the last ended attempt ended
  first_result,  \* per file: how the first attempt ended
  waited,        \* per file: seconds of backoff its upload_video call has waited
  log,           \* per file: the steps of its task that the properties speak of
  returned,      \* return value of the last run
  \* history of the current run, for the properties
  started,       \* files whose upload_video call was started
  outcome,       \* per file: how its upload_video call ended
  inflight_at_latch, \* files with an upload in flight when the stop was latched
  latchers,      \* files whose failure latched the stop
  committed,     \* success commits <<hash, video_id>> of the run
  terminal,      \* per file: the ways its task left process_file
  overall,       \* completed count of the overall-progress task
  rows_at_start  \* the table when the run started

retryvars == <<attempts, attempt_result, first_result, waited>>
plvars == <<pl_remote, pl_cache, pl_initialized, pl_pc, pl_title, pl_id>>
cmdvars == <<xfer, rows_before>>
auxvars == <<plvars, sync_report, fix_result, pending, cmdvars>>
runvars == <<run_limit, env, retry_count, folder_map, ordinal, retryvars, log, phase, video_files, workers, dry_run, force, simple_check,
             quota_limit, sem, waitq, stop_event, pc, file_hash, calls, nvid,
             nruns, returned, started, outcome, inflight_at_latch, latchers,
             committed, terminal, overall, rows_at_start>>
vars == <<rows, legacy_json, now, runvars, auxvars>>

(* --------------------------- history store ---------------------------- *)

Row(path, hash, vid, ts, status, err) ==
  [file_path |-> path, file_hash |-> hash, video_id |-> vid,
   timestamp |-> ts, status |-> status, error |-> err]

RowsWithHash(rs, h) == {i \in DOMAIN rs : rs[i].file_hash = h}

\* is_uploaded comparing the status with a word no row carries
is_uploaded_wrong_status(rs, h) ==
  \E i \in DOMAIN rs : rs[i].file_hash = h /\ rs[i].status = "uploaded"

\* SELECT 1 FROM uploads WHERE file_hash = ? AND status = 'success'
is_uploaded(rs, h) ==
  \E i \in DOMAIN rs : rs[i].file_hash = h /\ rs[i].status = "success"

\* a path check that knows no path
never_uploaded_by_path(rs, p) == FALSE

is_uploaded_by_path(rs, p) ==
  \E i \in DOMAIN rs : rs[i].file_path = p /\ rs[i].status = "success"

\* add_record: UPDATE every row WHERE file_hash = ?, or INSERT when there is none
add_record(rs, path, hash, vid, ts) ==
  IF RowsWithHash(rs, hash) # {}
  THEN [i \in DOMAIN rs |->
          IF rs[i].file_hash = hash
          THEN Row(path, hash, vid, ts, "success", NULL)
          ELSE rs[i]]
  ELSE Append(rs, Row(path, hash, vid, ts, "success", NULL))

\* add_failure: the same upsert, with video_id = NULL and the error text
\* an add_failure whose UPDATE leaves status and video_id as they are
add_failure_keeping_status(rs, path, hash, err, ts) ==
  IF RowsWithHash(rs, hash) # {}
  THEN [i \in DOMAIN rs |->
          IF rs[i].file_hash = hash
          THEN Row(path, hash, rs[i].video_id, ts, rs[i].status, err)
          ELSE rs[i]]
  ELSE Append(rs, Row(path, hash, NO_VIDEO, ts, "failed", err))

add_failure(rs, path, hash, err, ts) ==
  IF RowsWithHash(rs, hash) # {}
  THEN [i \in DOMAIN rs |->
          IF rs[i].file_hash = hash
          THEN Row(path, hash, NO_VIDEO, ts, "failed", err)
          ELSE rs[i]]
  ELSE Append(rs, Row(path, hash, NO_VIDEO, ts, "failed", err))

\* a DELETE that stops at the first row it removed
RECURSIVE DeleteFirstWhere(_, _, _)
DeleteFirstWhere(rs, field, key) ==
  IF rs = <<>> THEN <<>>
  ELSE IF Head(rs)[field] = key
       THEN Tail(rs)
       ELSE <<Head(rs)>> \o DeleteFirstWhere(Tail(rs), field, key)

\* DELETE FROM uploads WHERE <field> = key : the rows that stay, in order
RECURSIVE DeleteWhere(_, _, _)
DeleteWhere(rs, field, key) ==
  IF rs = <<>> THEN <<>>
  ELSE IF Head(rs)[field] = key
       THEN DeleteWhere(Tail(rs), field, key)
       ELSE <<Head(rs)>> \o DeleteWhere(Tail(rs), field, key)

delete_record(rs, hash) == DeleteWhere(rs, "file_hash", hash)
delete_record_by_path(rs, path) == DeleteWhere(rs, "file_path", path)
\* WHERE video_id = NULL matches no row
delete_record_by_video_id(rs, vid) ==
  IF vid = NO_VIDEO THEN rs ELSE DeleteWhere(rs, "video_id", vid)

\* A record of an import file or of the legacy dump. A key the record does
\* not carry is ABSENT (strings) or NO_TIMESTAMP; a missing or null video_id
\* is NO_VIDEO.
ABSENT == "ABSENT"
NO_TIMESTAMP == -1

\* record.get(key, default)
Get(rec, key, default) == IF rec[key] = ABSENT THEN default ELSE rec[key]

\* a test for a missing hash that never finds one missing
never_no_hash(rec) == FALSE

\* "not file_hash": the key is missing, null or the empty string
NoHash(rec) == rec.file_hash \in {ABSENT, NULL, ""}

\* the row INSERTed for an input record; ts_default is the default timestamp
InsertedRow(rec, ts_default) ==
  Row(Get(rec, "file_path", ""), rec.file_hash, rec.video_id,
      IF rec.timestamp = NO_TIMESTAMP THEN ts_default ELSE rec.timestamp,
      Get(rec, "status", "success"), Get(rec, "error", NULL))

\* a look-up that sees only the rows of status success
get_record_of_success(rs, h) == is_uploaded(rs, h)

\* get_record(file_hash) is not None: the hash has a row, of any status
record_exists(rs, h) == RowsWithHash(rs, h) # {}

\* import_records: skip a record without hash or whose hash has a row (also
\* one inserted earlier in the same call), insert the others as they are
RECURSIVE import_rows(_, _, _)
import_rows(rs, records, ts) ==
  IF records = <<>> THEN rs
  ELSE IF NoHash(Head(records)) \/ record_exists(rs, Head(records).file_hash)
       THEN import_rows(rs, Tail(records), ts)
       ELSE import_rows(Append(rs, InsertedRow(Head(records), ts)),
                        Tail(records), ts)

\* the pair (imported, skipped) import_records returns
RECURSIVE import_counts(_, _, _)
import_counts(rs, records, ts) ==
  IF records = <<>> THEN <<0, 0>>
  ELSE IF NoHash(Head(records)) \/ record_exists(rs, Head(records).file_hash)
       THEN LET c == import_counts(rs, Tail(records), ts)
            IN  <<c[1], c[2] + 1>>
       ELSE LET c == import_counts(Append(rs, InsertedRow(Head(records), ts)),
                                   Tail(records), ts)
            IN  <<c[1] + 1, c[2]>>

\* get_all_records: SELECT * ... ORDER BY timestamp DESC; rows of one
\* timestamp come in an order SQL leaves open
get_all_records(rs) ==
  {p \in Permutations(DOMAIN rs) :
     \A i, j \in DOMAIN rs : i < j => rs[p[i]].timestamp >= rs[p[j]].timestamp}

\* the record of the JSON export for a row: every column but id, a NULL
\* column as null
clean_record(row) ==
  [file_path |-> row.file_path, file_hash |-> row.file_hash,
   video_id |-> row.video_id, timestamp |-> row.timestamp,
   status |-> row.status, error |-> row.error]

\* export_records(format="json"), parsed back: the lists it may hold
export_records(rs) ==
  {[i \in DOMAIN rs |-> clean_record(rs[p[i]])] : p \in get_all_records(rs)}

\* _migrate_from_tinydb: only into a table without rows; every record that
\* has a file_hash is INSERTed, with no look at the rows already inserted
RECURSIVE migrate_rows(_, _)
migrate_rows(rs, records) ==
  IF records = <<>> THEN rs
  ELSE IF NoHash(Head(records))
       THEN migrate_rows(rs, Tail(records))
       ELSE migrate_rows(Append(rs, InsertedRow(Head(records), 0)),
                         Tail(records))

migrate_from_tinydb(rs, legacy) ==
  IF legacy = <<>> \/ Len(rs) > 0 THEN rs ELSE migrate_rows(rs, legacy)

\* The records an import file or a legacy dump may hold
InputRecord(path, hash, vid, status, err) ==
  [file_path |-> path, file_hash |-> hash, video_id |-> vid,
   timestamp |-> NO_TIMESTAMP, status |-> status, error |-> err]

InputRecords ==
  {InputRecord("p1", h, x[1], x[2], x[3]) :
     h \in {"h1", "h2"},
     x \in {<<1, "success", NULL>>, <<NO_VIDEO, "failed", "boom">>,
            <<NO_VIDEO, ABSENT, ABSENT>>}}
  \cup {InputRecord("p1", ABSENT, 1, "success", NULL)}

RecordLists ==
  UNION {[1..n -> InputRecords] : n \in 1..MaxImport}

(* ----------------------------- the pipeline --------------------------- *)

\* How one upload_video call can end, as process_file sees it. "retry_error"
\* is the RetryError the retry decorator raises when it gives up.
Outcomes == {"ok", "no_id", "quota", "limit", "signup", "http_other", "exception",
             "retry_error"}
HttpErrors == {"quota", "limit", "signup", "http_other"}

\* How one attempt of upload_video can end: with a response, or with
\*   quota / limit / signup : HttpError 403 / 400 carrying the reason
\*   http_other     : HttpError with a status outside the retried ones (404)
\*   http_transient : HttpError 408 / 429 / 500 / 502 / 503 / 504
\*   socket         : socket error or timeout (OSError raised by the transport)
\*   oserror        : any other OSError (the file cannot be opened or read)
\*   exception      : any other exception
AttemptResults ==
  {"ok", "no_id", "quota", "limit", "signup", "http_other", "exception",
   "http_transient", "socket", "oserror"}

\* isinstance(e, (socket.error, socket.timeout)): socket.error is OSError
IsOSError(r) == r \in {"socket", "oserror"}

\* the predicate retrying no HTTP status
should_retry_no_http(r) == IsOSError(r)

should_retry_exception(r) ==
  IF IsOSError(r) THEN TRUE
  ELSE IF r \in HttpErrors \cup {"http_transient"}
       THEN r = "http_transient"
       ELSE FALSE

RECURSIVE Pow2(_)
Pow2(n) == IF n = 0 THEN 1 ELSE 2 * Pow2(n - 1)

Max(a, b) == IF a >= b THEN a ELSE b
Min(a, b) == IF a <= b THEN a ELSE b

\* a wait of one second after every attempt
wait_one_second(k) == 1

\* wait_exponential(multiplier=1, min=2, max=60) after attempt number k
wait_exponential(k) == Max(Max(0, 2), Min(1 * Pow2(k - 1), 60))

\* stop_after_attempt(retry_count), asked after attempt number k
stop_after_attempt(k, n) == k >= n

\* str(e) of the exception an outcome raises
ErrText(o) ==
  CASE o = "quota" -> "HttpError 403 quotaExceeded"
    [] o = "limit" -> "HttpError 400 uploadLimitExceeded"
    [] o = "signup" -> "HttpError youtubeSignupRequired"
    [] o = "http_other" -> "HttpError other"
    [] o = "retry_error" -> "RetryError"
    [] OTHER -> "General Error"

\* sequences over Files without repetition, of length 0..NFiles
FileLists ==
  {l \in UNION {[1..n -> Files] : n \in 0..NFiles} :
     \A i, j \in DOMAIN l : i # j => l[i] # l[j]}

InList(f) == \E i \in DOMAIN video_files : video_files[i] = f

\* the success rows of any day
success_uploads(rs, today_start) ==
  {i \in DOMAIN rs : rs[i].status = "success"}

\* the quota gate of process_video_files: rows of today with status success
today_uploads(rs, today_start) ==
  {i \in DOMAIN rs : rs[i].status = "success" /\ rs[i].timestamp >= today_start}

remaining_units(rs, limit, today_start) ==
  LET used == Cardinality(today_uploads(rs, today_start)) * COST_PER_UPLOAD
  IN  IF limit - used > 0 THEN limit - used ELSE 0

QuotaGateHalts(rs, limit, today_start) ==
  remaining_units(rs, limit, today_start) < COST_PER_UPLOAD

\* the (index, total) of a file the map has no entry for, and of a file the
\* metadata generator was not called for
DEFAULT_ORDINAL == <<0, 0>>
NO_ORDINAL == <<>>

\* the files of the list that lie in a folder, in list order
FilesIn(l, folder) == SelectSeq(l, LAMBDA f : ParentOf(f) = folder)

\* a list left in the order it came
KeepOrder(l) == l

\* files.sort(key=lambda x: x.name): a stable sort by name, ascending
RECURSIVE InsertByName(_, _)
InsertByName(f, l) ==
  IF l = <<>> THEN <<f>>
  ELSE IF NameOf(f) < NameOf(Head(l))
       THEN <<f>> \o l
       ELSE <<Head(l)>> \o InsertByName(f, Tail(l))

RECURSIVE SortedFrom(_, _)
SortedFrom(l, n) ==
  IF n = 0 THEN <<>> ELSE InsertByName(l[n], SortedFrom(l, n - 1))

SortByName(l) == SortedFrom(l, Len(l))

\* enumerate(files, start=1): the position of f
PositionIn(l, f) == CHOOSE i \in DOMAIN l : l[i] = f

\* folder_map: for every folder of the list, its files sorted by name and
\* numbered from 1, with the number of files of the folder
build_folder_map(l) ==
  [f \in {l[i] : i \in DOMAIN l} |->
     LET files == SortByName(FilesIn(l, ParentOf(f)))
     IN  <<PositionIn(files, f), Len(files)>>]

\* folder_map.get(file_path, (0, 0))
folder_map_get(m, f) == IF f \in DOMAIN m THEN m[f] ELSE DEFAULT_ORDINAL

\* the playlist manager is not used, no comparison was made
PlaylistIdle ==
  /\ pl_remote = <<>>
  /\ pl_cache = <<>>
  /\ pl_initialized = FALSE
  /\ pl_pc = <<>>
  /\ pl_title = <<>>
  /\ pl_id = <<>>

NO_REPORT == <<>>

NO_RESULT == <<>>
NO_TRANSFER == <<>>
\* no command is running
NoReport ==
  /\ sync_report = NO_REPORT
  /\ fix_result = NO_RESULT
  /\ pending = <<>>
  /\ xfer = NO_TRANSFER
  /\ rows_before = <<>>

NoRunHistory ==
  /\ folder_map = <<>>
  /\ ordinal = [f \in Files |-> NO_ORDINAL]
  /\ attempts = [f \in Files |-> 0]
  /\ attempt_result = [f \in Files |-> "none"]
  /\ first_result = [f \in Files |-> "none"]
  /\ waited = [f \in Files |-> 0]
  /\ log = [f \in Files |-> <<>>]
  /\ started = {}
  /\ outcome = [f \in Files |-> "none"]
  /\ inflight_at_latch = {}
  /\ latchers = {}
  /\ committed = {}
  /\ terminal = [f \in Files |-> <<>>]
  /\ overall = 0

\* what the environment may answer
HashResults(f) == IF env = "any" THEN {ContentHash(f), ""} ELSE {ContentHash(f)}
Answers == IF env = "any" THEN BOOLEAN ELSE {TRUE}
UploadOutcomes ==
  CASE env = "healthy" -> {"ok"}
    [] env = "flaky" -> {"ok", "http_transient", "socket", "oserror", "http_other"}
    [] OTHER -> AttemptResults

\* what earlier sessions may have left in the store
InitialStores ==
  {<<>>, <<Row(PathOf(1), ContentHash(1), 1, 1, "success", NULL)>>}

\* number of success rows: the video ids the remote handed out before
VideosOf(rs) == Cardinality({i \in DOMAIN rs : rs[i].video_id # NO_VIDEO})

InitRunState ==
  /\ legacy_json = <<>>
  /\ now = 1
  /\ phase = "idle"
  /\ video_files \in FileLists
  /\ workers \in 1..MaxWorkers
  /\ dry_run \in BOOLEAN
  /\ force \in {FALSE, dry_run}
  /\ simple_check \in BOOLEAN
  /\ sem = 0
  /\ waitq = <<>>
  /\ stop_event = FALSE
  /\ pc = [f \in Files |-> "absent"]
  /\ file_hash = [f \in Files |-> UNKNOWN]
  /\ calls = [f \in Files |-> 0]
  /\ nvid = VideosOf(rows)
  /\ nruns = 0
  /\ returned = FALSE
  /\ rows_at_start = <<>>
  /\ NoRunHistory
  /\ PlaylistIdle
  /\ NoReport

Init ==
  /\ rows \in InitialStores
  /\ env = "any"
  /\ run_limit = 1
  /\ retry_count = 1
  /\ quota_limit \in IF rows = <<>> THEN {daily_quota_limit}
                    ELSE {daily_quota_limit, COST_PER_UPLOAD}
  /\ InitRunState

InitTwice ==
  /\ rows = <<>>
  /\ env = "healthy"
  /\ run_limit = 2
  /\ retry_count = 1
  /\ quota_limit \in {daily_quota_limit, 2 * COST_PER_UPLOAD}
  /\ InitRunState

InitRetry ==
  /\ rows = <<>>
  /\ env = "flaky"
  /\ run_limit = 1
  /\ retry_count \in 1..MaxRetry
  /\ quota_limit = daily_quota_limit
  /\ InitRunState
  /\ ~dry_run /\ ~simple_check
  /\ Len(video_files) <= MaxRetryFiles

\* the day a run is made on: the day of the run before, or the next
RunDays == IF nruns = 0 THEN {now} ELSE {now, now + 1}

\* process_video_files up to the gather: the empty list, the quota gate, the
\* semaphore, the stop event, one task per file
BeginRun(files, store) ==
  /\ nruns' = nruns + 1
  /\ video_files' = files
  /\ rows' = store
  /\ rows_at_start' = store
  /\ stop_event' = FALSE
  /\ waitq' = <<>>
  /\ file_hash' = [f \in Files |-> UNKNOWN]
  /\ attempts' = [f \in Files |-> 0]
  /\ attempt_result' = [f \in Files |-> "none"]
  /\ first_result' = [f \in Files |-> "none"]
  /\ waited' = [f \in Files |-> 0]
  /\ log' = [f \in Files |-> <<>>]
  /\ ordinal' = [f \in Files |-> NO_ORDINAL]
  /\ started' = {}
  /\ outcome' = [f \in Files |-> "none"]
  /\ inflight_at_latch' = {}
  /\ latchers' = {}
  /\ committed' = {}
  /\ terminal' = [f \in Files |-> <<>>]
  /\ overall' = 0
  /\ \E today \in RunDays :
       /\ now' = today
       /\ IF files = <<>> \/ (~dry_run /\ QuotaGateHalts(store, quota_limit, today))
          THEN /\ phase' = "returned"
               /\ returned' = FALSE
               /\ sem' = 0
               /\ pc' = [f \in Files |-> "absent"]
               /\ UNCHANGED folder_map
          ELSE /\ phase' = "running"
               /\ returned' = FALSE
               /\ folder_map' = build_folder_map(files)
               /\ sem' = workers
               /\ pc' = [f \in Files |->
                          IF \E i \in DOMAIN files : files[i] = f
                          THEN "new" ELSE "absent"]
  /\ UNCHANGED <<legacy_json, run_limit, env, retry_count, workers, dry_run,
                 force, simple_check, quota_limit, calls, nvid>>

\* a command that calls process_video_files once per run, on one list
StartRun ==
  /\ phase \in {"idle", "returned"}
  /\ nruns < run_limit
  /\ BeginRun(video_files, rows)
  /\ UNCHANGED auxvars

\* the index of f in the list
IndexOf(f) == CHOOSE i \in DOMAIN video_files : video_files[i] = f

\* tasks take their first step in the order gather created them
FirstNew(f) ==
  /\ pc[f] = "new"
  /\ \A i \in DOMAIN video_files : i < IndexOf(f) => pc[video_files[i]] # "new"

AllEntered == \A f \in Files : pc[f] # "new"

\* asyncio.Event.is_set()
never_set(ev) == FALSE
is_set(ev) == ev

\* the task of f leaves process_file in the way named, having called
\* progress.advance(overall_task) n times on its way out
Exit(f, way, n) ==
  /\ terminal' = [terminal EXCEPT ![f] = Append(@, way)]
  /\ overall' = overall + n

NoExit == UNCHANGED <<terminal, overall>>

\* process_file from the slot to its first await: the second stop check, the
\* path check, stat(). free is the number of free slots with f holding one.
\* (First the same without the stop check.)
InSlotNoStopCheck(f, free, stat_ok) ==
  /\ UNCHANGED log
  /\ IF simple_check /\ ~force /\ is_uploaded_by_path(rows, PathOf(f))
     THEN /\ pc' = [pc EXCEPT ![f] = "done"] /\ sem' = free + 1
          /\ Exit(f, "duplicate", 2)
     ELSE IF ~stat_ok
     THEN /\ pc' = [pc EXCEPT ![f] = "done"] /\ sem' = free + 1
          /\ Exit(f, "failed", 1)
     ELSE /\ pc' = [pc EXCEPT ![f] = "hashing"] /\ sem' = free
          /\ NoExit

InSlot(f, free, stat_ok) ==
  IF is_set(stop_event)
  THEN /\ pc' = [pc EXCEPT ![f] = "done"] /\ sem' = free + 1
       /\ log' = [log EXCEPT ![f] = Append(@, "stopped_in_slot")]
       /\ Exit(f, "stopped", 1)
  ELSE /\ UNCHANGED log
       /\ IF simple_check /\ ~force /\ is_uploaded_by_path(rows, PathOf(f))
          THEN /\ pc' = [pc EXCEPT ![f] = "done"] /\ sem' = free + 1
               /\ Exit(f, "duplicate", 2)
          ELSE IF ~stat_ok
          THEN /\ pc' = [pc EXCEPT ![f] = "done"] /\ sem' = free + 1
               /\ Exit(f, "failed", 1)
          ELSE /\ pc' = [pc EXCEPT ![f] = "hashing"] /\ sem' = free
               /\ NoExit

\* first step of a task: the stop check at entry, then the semaphore
Enter(f) ==
  /\ phase = "running"
  /\ FirstNew(f)
  /\ \E stat_ok \in Answers :
       IF is_set(stop_event)
       THEN /\ pc' = [pc EXCEPT ![f] = "done"]
            /\ log' = [log EXCEPT ![f] = Append(@, "stopped_at_entry")]
            /\ Exit(f, "stopped", 1)
            /\ UNCHANGED <<sem, waitq>>
       ELSE IF sem > 0
       THEN InSlot(f, sem - 1, stat_ok) /\ UNCHANGED waitq
       ELSE /\ pc' = [pc EXCEPT ![f] = "waiting"]
            /\ waitq' = Append(waitq, f)
            /\ NoExit
            /\ UNCHANGED <<sem, log>>
  /\ UNCHANGED <<rows, legacy_json, now, run_limit, env, retry_count, retryvars,
                 folder_map, ordinal, auxvars,
                 phase, video_files, workers, dry_run, force, simple_check,
                 quota_limit, stop_event, file_hash, calls,
                 nvid, nruns, returned, started, outcome, inflight_at_latch,
                 latchers, committed, rows_at_start>>

\* a released slot goes to the longest waiting task
Acquire(f) ==
  /\ phase = "running"
  /\ AllEntered
  /\ waitq # <<>> /\ Head(waitq) = f
  /\ sem > 0
  /\ waitq' = Tail(waitq)
  /\ \E stat_ok \in Answers : InSlot(f, sem - 1, stat_ok)
  /\ UNCHANGED <<rows, legacy_json, now, run_limit, env, retry_count, retryvars,
                 folder_map, ordinal, auxvars,
                 phase, video_files, workers, dry_run, force, simple_check,
                 quota_limit, stop_event, file_hash, calls,
                 nvid, nruns, returned, started, outcome, inflight_at_latch,
                 latchers, committed, rows_at_start>>

\* what the actions of a task in its slot leave alone
TaskFrame ==
  UNCHANGED <<legacy_json, now, run_limit, env, retry_count, folder_map, auxvars,
              phase, video_files, workers,
              dry_run, force, simple_check, quota_limit, waitq, nruns, returned, rows_at_start>>

\* a task that ends and keeps its slot
FinishKeepingSlot(f) ==
  /\ pc' = [pc EXCEPT ![f] = "done"]
  /\ UNCHANGED sem

\* finally: the task ends and gives its slot back
Finish(f) ==
  /\ pc' = [pc EXCEPT ![f] = "done"]
  /\ sem' = sem + 1

\* calculate_hash returned: the hash check, the metadata, the dry-run preview,
\* and the start of upload_video. generate() may raise, which the generic
\* handler records under the hash just computed.
HashDone(f) ==
  /\ phase = "running"
  /\ AllEntered
  /\ pc[f] = "hashing"
  /\ \E h \in HashResults(f), meta_ok \in Answers :
       /\ file_hash' = [file_hash EXCEPT ![f] = h]
       /\ IF ~force /\ is_uploaded(rows, h)
          THEN /\ Finish(f)
               /\ Exit(f, "duplicate", 2)
               /\ UNCHANGED <<rows, calls, started, attempts, ordinal>>
          ELSE /\ ordinal' = [ordinal EXCEPT ![f] = folder_map_get(folder_map, f)]
               /\ IF ~meta_ok
                  THEN /\ rows' = add_failure(rows, PathOf(f), h, ErrText("exception"), now)
                       /\ Finish(f)
                       /\ Exit(f, "failed", 1)
                       /\ UNCHANGED <<calls, started, attempts>>
                  ELSE IF dry_run
                  THEN /\ Finish(f)
                       /\ Exit(f, "previewed", 2)
                       /\ UNCHANGED <<rows, calls, started, attempts>>
                  ELSE /\ NoExit
                       /\ calls' = [calls EXCEPT ![f] = @ + 1]
                       /\ attempts' = [attempts EXCEPT ![f] = 1]
                       /\ started' = started \cup {f}
                       /\ pc' = [pc EXCEPT ![f] = "uploading"]
                       /\ UNCHANGED <<rows, sem>>
  /\ UNCHANGED <<stop_event, nvid, outcome, inflight_at_latch, latchers, committed,
                 attempt_result, first_result, waited, log>>
  /\ TaskFrame

\* the files whose upload is in flight, other than f
OthersInFlight(f) == {g \in Files : g # f /\ pc[g] = "uploading"}

\* the handler's last test: "if not quota error, record failure as usual"
records_whenever_hashed(stop_set, hash) == hash # UNKNOWN
records_as_usual(stop_set, hash) == ~stop_set /\ hash # UNKNOWN

\* the text the quota and the upload-limit branch record
LatchText(o) == IF o = "quota" THEN "Quota Exceeded" ELSE "Account Upload Limit Exceeded"

\* except HttpError: the table after the handler, for the error o of file f
\* with hash h; stop_set is the stop event when the handler is entered
http_error_rows(rs, f, h, o, stop_set, ts) ==
  LET latch == o \in {"quota", "limit"}
      rs1 == IF latch /\ h # UNKNOWN
             THEN add_failure(rs, PathOf(f), h, LatchText(o), ts)
             ELSE rs
  IN  IF records_as_usual(stop_set \/ latch, h)
      THEN add_failure(rs1, PathOf(f), h, ErrText(o), ts)
      ELSE rs1

\* except Exception: the table after the handler
exception_rows(rs, f, h, o, ts) ==
  IF h # UNKNOWN THEN add_failure(rs, PathOf(f), h, ErrText(o), ts) ELSE rs

\* the steps after a video id came back, up to the first await: the commit and
\* the playlist call (first in the other order)
PlaylistThenCommit == <<"playlist", "commit">>
CommitThenPlaylist == <<"commit", "playlist">>

\* an attempt of upload_video ended: another attempt after the backoff wait,
\* or the call returns or raises: the success commit, or the handlers
UploadEnd(f) ==
  /\ phase = "running"
  /\ pc[f] = "uploading"
  /\ \E r \in UploadOutcomes :
       /\ attempt_result' = [attempt_result EXCEPT ![f] = r]
       /\ first_result' = [first_result EXCEPT ![f] = IF attempts[f] = 1 THEN r ELSE @]
       /\ IF should_retry_exception(r) /\ ~stop_after_attempt(attempts[f], retry_count)
          THEN /\ attempts' = [attempts EXCEPT ![f] = @ + 1]
               /\ waited' = [waited EXCEPT ![f] = @ + wait_exponential(attempts[f])]
               /\ NoExit
               /\ UNCHANGED <<rows, pc, sem, stop_event, nvid, outcome, log,
                              inflight_at_latch, latchers, committed>>
          ELSE LET o == IF should_retry_exception(r) THEN "retry_error" ELSE r
               IN
               /\ UNCHANGED <<attempts, waited>>
               /\ outcome' = [outcome EXCEPT ![f] = o]
               /\ CASE o = "ok" ->
                       /\ nvid' = nvid + 1
                       /\ rows' = add_record(rows, PathOf(f), file_hash[f], nvid + 1, now)
                       /\ committed' = committed \cup {<<file_hash[f], nvid + 1>>}
                       /\ log' = [log EXCEPT ![f] = @ \o CommitThenPlaylist]
                       /\ pc' = [pc EXCEPT ![f] = "playlist"]
                       /\ NoExit
                       /\ UNCHANGED <<sem, stop_event, inflight_at_latch, latchers>>
                  [] o = "no_id" ->
                       /\ Finish(f)
                       /\ Exit(f, "failed", 1)
                       /\ UNCHANGED <<rows, nvid, committed, stop_event, log,
                                      inflight_at_latch, latchers>>
                  [] o \in {"quota", "limit"} ->
                       /\ stop_event' = TRUE
                       /\ latchers' = latchers \cup {f}
                       /\ inflight_at_latch' =
                            IF stop_event THEN inflight_at_latch
                            ELSE OthersInFlight(f)
                       /\ rows' = http_error_rows(rows, f, file_hash[f], o,
                                                  is_set(stop_event), now)
                       /\ Finish(f)
                       /\ Exit(f, "failed", 1)
                       /\ UNCHANGED <<nvid, committed, log>>
                  [] o \in {"signup", "http_other"} ->
                       /\ rows' = http_error_rows(rows, f, file_hash[f], o,
                                                  is_set(stop_event), now)
                       /\ Finish(f)
                       /\ Exit(f, "failed", 1)
                       /\ UNCHANGED <<nvid, committed, stop_event, log,
                                      inflight_at_latch, latchers>>
                  [] OTHER ->
                       /\ rows' = exception_rows(rows, f, file_hash[f], o, now)
                       /\ Finish(f)
                       /\ Exit(f, "failed", 1)
                       /\ UNCHANGED <<nvid, committed, stop_event, log,
                                      inflight_at_latch, latchers>>
  /\ UNCHANGED <<file_hash, calls, started, ordinal>>
  /\ TaskFrame

\* how a post-processing call may end
PostResults == IF env = "any" THEN {"ok", "failed"} ELSE {"ok"}

\* a handler that records the failure of a post-processing step
record_post_failure(rs, path, hash, err, ts) == add_failure(rs, path, hash, err, ts)

\* except Exception around the playlist step and around upload_thumbnail: the
\* failure is logged and printed, the table is left alone
log_post_failure(rs, path, hash, err, ts) == rs

\* the playlist step ended; then the thumbnail lookup, and the upload_thumbnail
\* call when an image lies beside the video
PlaylistDone(f) ==
  /\ phase = "running"
  /\ pc[f] = "playlist"
  /\ \E res \in PostResults :
       /\ rows' = IF res = "failed"
                  THEN log_post_failure(rows, PathOf(f), file_hash[f], "playlist", now)
                  ELSE rows
       /\ IF HasThumbnail(f)
          THEN /\ pc' = [pc EXCEPT ![f] = "thumbnail"]
               /\ log' = [log EXCEPT ![f] = @ \o <<"playlist_" \o res, "thumbnail">>]
               /\ NoExit
               /\ UNCHANGED sem
          ELSE /\ Finish(f)
               /\ Exit(f, "published", 1)
               /\ log' = [log EXCEPT ![f] = Append(@, "playlist_" \o res)]
  /\ UNCHANGED <<stop_event, file_hash, calls, nvid, started, outcome,
                 inflight_at_latch, latchers, committed, retryvars, ordinal>>
  /\ TaskFrame

\* upload_thumbnail returned or raised
ThumbnailDone(f) ==
  /\ phase = "running"
  /\ pc[f] = "thumbnail"
  /\ \E res \in PostResults :
       /\ rows' = IF res = "failed"
                  THEN log_post_failure(rows, PathOf(f), file_hash[f], "thumbnail", now)
                  ELSE rows
       /\ log' = [log EXCEPT ![f] = Append(@, "thumbnail_" \o res)]
  /\ Finish(f)
  /\ Exit(f, "published", 1)
  /\ UNCHANGED <<stop_event, file_hash, calls, nvid, started, outcome,
                 inflight_at_latch, latchers, committed, retryvars, ordinal>>
  /\ TaskFrame

\* gather returned: process_video_files returns stop_event.is_set()
EndRun ==
  /\ phase = "running"
  /\ \A f \in Files : pc[f] \in {"absent", "done"}
  /\ phase' = "returned"
  /\ returned' = is_set(stop_event)
  /\ UNCHANGED <<rows, legacy_json, now, run_limit, env, retry_count, retryvars,
                 folder_map, ordinal, auxvars,
                 log, video_files, workers, dry_run, force, simple_check,
                 quota_limit, sem, waitq, stop_event, pc,
                 file_hash, calls, nvid, nruns, started, outcome,
                 inflight_at_latch, latchers, committed, terminal, overall, rows_at_start>>

Next ==
  \/ StartRun
  \/ \E f \in Files : Enter(f)
  \/ \E f \in Files : Acquire(f)
  \/ \E f \in Files : HashDone(f)
  \/ \E f \in Files : UploadEnd(f)
  \/ \E f \in Files : PlaylistDone(f)
  \/ \E f \in Files : ThumbnailDone(f)
  \/ EndRun

Spec == Init /\ [][Next]_vars

SpecTwice == InitTwice /\ [][Next]_vars

SpecRetry == InitRetry /\ [][Next]_vars

\* Every task that can take a step takes one: the event loop runs each
\* runnable task, and a call to the remote returns or raises.
Fairness ==
  \A f \in Files :
    /\ WF_vars(Enter(f)) /\ WF_vars(Acquire(f)) /\ WF_vars(HashDone(f))
    /\ WF_vars(UploadEnd(f))
    /\ WF_vars(PlaylistDone(f)) /\ WF_vars(ThumbnailDone(f))

InitLive ==
  /\ Init
  /\ Len(video_files) <= MaxLiveFiles

SpecLive == InitLive /\ [][Next]_vars /\ WF_vars(StartRun) /\ WF_vars(EndRun) /\ Fairness

(* --------------------------- the retry command ------------------------ *)

\* the row add_failure left for a file whose upload failed earlier
FailedRow(f) == Row(PathOf(f), ContentHash(f), NO_VIDEO, 0, "failed", "boom")

\* get_failed_records(): the files of the failed rows, newest first (rows of
\* one timestamp in any order); a hash has one row, so no two of the files
\* have the same content
FailedLists ==
  {l \in FileLists :
     /\ Len(l) >= 1
     /\ \A i, j \in DOMAIN l : i # j => ContentHash(l[i]) # ContentHash(l[j])}

\* the values of the --playlist option: none, or a name
PlaylistOverrides == {NULL, "override"}

\* pl_name = playlist_override if playlist_override else
\* record.get("playlist_name"); the playlist_name of a failed row is the
\* name of the file's folder, as add_failure was given it
pl_name(f, playlist_override) ==
  IF playlist_override # NULL THEN playlist_override ELSE ParentOf(f)

\* tasks_by_playlist[pl_name].append(f_path)
AddToGroup(groups, f, playlist_override) ==
  IF \E i \in DOMAIN groups :
       pl_name(groups[i][1], playlist_override) = pl_name(f, playlist_override)
  THEN [i \in DOMAIN groups |->
          IF pl_name(groups[i][1], playlist_override)
               = pl_name(f, playlist_override)
          THEN Append(groups[i], f) ELSE groups[i]]
  ELSE Append(groups, <<f>>)

\* _group_tasks_by_playlist: the groups in the order a dict keeps its keys
RECURSIVE group_tasks_by_playlist(_, _)
group_tasks_by_playlist(l, playlist_override) ==
  IF l = <<>> THEN <<>>
  ELSE AddToGroup(group_tasks_by_playlist(SubSeq(l, 1, Len(l) - 1),
                                          playlist_override),
                  l[Len(l)], playlist_override)

\* a loop that goes on whatever the run of a group returned
goes_on(is_stopped) == FALSE

\* if is_stopped: break
break_loop(is_stopped) == is_stopped

InitRetryCommand ==
  /\ \E l \in FailedLists, playlist_override \in PlaylistOverrides :
       /\ rows = [i \in DOMAIN l |-> FailedRow(l[i])]
       /\ pending = group_tasks_by_playlist(l, playlist_override)
  /\ legacy_json = <<>>
  /\ now = 1
  /\ phase = "idle"
  /\ env = "any"
  /\ run_limit = 0
  /\ retry_count = 1
  /\ quota_limit = daily_quota_limit
  /\ video_files = <<>>
  /\ workers \in 1..MaxWorkers
  /\ dry_run \in BOOLEAN
  /\ force = FALSE
  /\ simple_check = FALSE
  /\ sem = 0
  /\ waitq = <<>>
  /\ stop_event = FALSE
  /\ pc = [f \in Files |-> "absent"]
  /\ file_hash = [f \in Files |-> UNKNOWN]
  /\ calls = [f \in Files |-> 0]
  /\ nvid = 0
  /\ nruns = 0
  /\ returned = FALSE
  /\ rows_at_start = <<>>
  /\ NoRunHistory
  /\ PlaylistIdle
  /\ sync_report = NO_REPORT
  /\ fix_result = NO_RESULT
  /\ xfer = NO_TRANSFER
  /\ rows_before = <<>>

\* for pl_name, files in tasks_by_playlist.items(): the run of the next
\* group, unless the run before reported the stop
DispatchGroup ==
  /\ phase \in {"idle", "returned"}
  /\ pending # <<>>
  /\ ~break_loop(returned)
  /\ BeginRun(Head(pending), rows)
  /\ pending' = Tail(pending)
  /\ UNCHANGED <<plvars, sync_report, fix_result, cmdvars>>

NextRetryCommand ==
  \/ DispatchGroup
  \/ \E f \in Files : Enter(f)
  \/ \E f \in Files : Acquire(f)
  \/ \E f \in Files : HashDone(f)
  \/ \E f \in Files : UploadEnd(f)
  \/ \E f \in Files : PlaylistDone(f)
  \/ \E f \in Files : ThumbnailDone(f)
  \/ EndRun

SpecRetryCommand == InitRetryCommand /\ [][NextRetryCommand]_vars

(* ----------------- the history store under maintenance ---------------- *)

LegacyDumps == {<<>>} \cup RecordLists

\* no run is made
NoRun ==
  /\ run_limit = 0
  /\ env = "any"
  /\ retry_count = 1
  /\ video_files = <<>>
  /\ workers = 1
  /\ dry_run = FALSE
  /\ force = FALSE
  /\ simple_check = FALSE
  /\ quota_limit = daily_quota_limit
  /\ sem = 0
  /\ waitq = <<>>
  /\ stop_event = FALSE
  /\ pc = [f \in Files |-> "absent"]
  /\ file_hash = [f \in Files |-> UNKNOWN]
  /\ calls = [f \in Files |-> 0]
  /\ nvid = 0
  /\ nruns = 0
  /\ returned = FALSE
  /\ rows_at_start = <<>>
  /\ NoRunHistory

InitStore ==
  /\ PlaylistIdle
  /\ NoReport
  /\ rows = <<>>
  /\ legacy_json \in LegacyDumps
  /\ now = 1
  /\ phase = "closed"
  /\ NoRun

StoreFrame == UNCHANGED <<legacy_json, now, runvars, auxvars>>

\* HistoryManager(): the schema, then the one-shot migration
Open ==
  /\ phase \in {"closed", "open"}
  /\ phase' = "open"
  /\ rows' = migrate_from_tinydb(rows, legacy_json)
  /\ UNCHANGED <<legacy_json, now, run_limit, env, retry_count, retryvars,
                 folder_map, ordinal, auxvars,
                 log, video_files, workers,
                 dry_run, force, simple_check, quota_limit, sem, waitq,
                 stop_event, pc, file_hash, calls, nvid, nruns, returned,
                 started, outcome, inflight_at_latch, latchers, committed, terminal, overall,
                 rows_at_start>>

AddRecord ==
  /\ phase = "open"
  /\ \E p \in Paths, h \in Hashes, v \in 1..MaxVideos :
       rows' = add_record(rows, p, h, v, now)
  /\ StoreFrame

AddFailure ==
  /\ phase = "open"
  /\ \E p \in Paths, h \in Hashes :
       rows' = add_failure(rows, p, h, "boom", now)
  /\ StoreFrame

ImportRecords ==
  /\ phase = "open"
  /\ \E records \in RecordLists \cup export_records(rows) :
       rows' = import_rows(rows, records, now)
  /\ StoreFrame

DeleteRecord ==
  /\ phase = "open"
  /\ \E h \in Hashes : rows' = delete_record(rows, h)
  /\ StoreFrame

DeleteRecordByPath ==
  /\ phase = "open"
  /\ \E p \in Paths : rows' = delete_record_by_path(rows, p)
  /\ StoreFrame

DeleteRecordByVideoId ==
  /\ phase = "open"
  /\ \E v \in 1..MaxVideos : rows' = delete_record_by_video_id(rows, v)
  /\ StoreFrame

NextStore ==
  \/ Open
  \/ AddRecord
  \/ AddFailure
  \/ ImportRecords
  \/ DeleteRecord
  \/ DeleteRecordByPath
  \/ DeleteRecordByVideoId

SpecStore == InitStore /\ [][NextStore]_vars

(* --------------------------- playlist manager ------------------------- *)

\* the threads asyncio.to_thread runs the playlist calls of the workers on;
\* thread t attaches video t
Threads == 1..MaxThreads

\* a title no playlist of the account has
NEW_TITLE == 0

\* The account has n playlists, the i-th of title i; its id is its place in
\* the listing. A playlist the program creates is appended.
Playlist(title, created) == [title |-> title, videos |-> {}, created |-> created]
Account(n) == [i \in 1..n |-> Playlist(i, FALSE)]
AccountSizes == {0, 1, maxResults, maxResults + 1}
RequestTitles == {1, maxResults + 1, NEW_TITLE}

\* playlists().list(mine=True, maxResults=50).execute(): the first page
first_page(remote) == SubSeq(remote, 1, Min(Len(remote), maxResults))

\* self._playlist_cache[title] = id
cache_put(cache, title, id) ==
  [t \in DOMAIN cache \cup {title} |-> IF t = title THEN id ELSE cache[t]]

\* for item in response["items"]: self._playlist_cache[title] = item["id"]
\* (the last item of a title is the one the loop leaves in the cache)
cache_fill(cache, page) ==
  [t \in DOMAIN cache \cup {page[i].title : i \in DOMAIN page} |->
     IF \E i \in DOMAIN page : page[i].title = t
     THEN CHOOSE i \in DOMAIN page :
            /\ page[i].title = t
            /\ \A j \in DOMAIN page : page[j].title = t => j <= i
     ELSE cache[t]]

InitPlaylist ==
  /\ rows = <<>>
  /\ legacy_json = <<>>
  /\ now = 1
  /\ phase = "closed"
  /\ NoRun
  /\ NoReport
  /\ pl_remote \in {Account(n) : n \in AccountSizes}
  /\ pl_cache = <<>>
  /\ pl_initialized = FALSE
  /\ pl_pc = [t \in Threads |-> "idle"]
  /\ pl_title \in [Threads -> RequestTitles]
  /\ pl_id = [t \in Threads |-> 0]

PlaylistFrame ==
  UNCHANGED <<rows, legacy_json, now, runvars, sync_report, fix_result, pending, cmdvars>>

\* get_or_create_playlist(title) is entered: _ensure_cache reads _initialized
PlCall(t) ==
  /\ pl_pc[t] = "idle"
  /\ pl_pc' = [pl_pc EXCEPT ![t] = IF pl_initialized THEN "lookup" ELSE "listing"]
  /\ UNCHANGED <<pl_remote, pl_cache, pl_initialized, pl_title, pl_id>>
  /\ PlaylistFrame

\* _ensure_cache: the list request returned its one page, which fills the
\* cache, or raised HttpError, which is logged and leaves the cache as it is
PlListDone(t) ==
  /\ pl_pc[t] = "listing"
  /\ \E ok \in BOOLEAN :
       IF ok
       THEN /\ pl_cache' = cache_fill(pl_cache, first_page(pl_remote))
            /\ pl_initialized' = TRUE
       ELSE UNCHANGED <<pl_cache, pl_initialized>>
  /\ pl_pc' = [pl_pc EXCEPT ![t] = "lookup"]
  /\ UNCHANGED <<pl_remote, pl_title, pl_id>>
  /\ PlaylistFrame

\* if title in self._playlist_cache: return the cached id; else create
PlLookup(t) ==
  /\ pl_pc[t] = "lookup"
  /\ IF pl_title[t] \in DOMAIN pl_cache
     THEN /\ pl_id' = [pl_id EXCEPT ![t] = pl_cache[pl_title[t]]]
          /\ pl_pc' = [pl_pc EXCEPT ![t] = "attaching"]
     ELSE /\ pl_pc' = [pl_pc EXCEPT ![t] = "creating"]
          /\ UNCHANGED pl_id
  /\ UNCHANGED <<pl_remote, pl_cache, pl_initialized, pl_title>>
  /\ PlaylistFrame

\* playlists().insert().execute() returned the new playlist, which is cached
\* and returned, or raised HttpError: None is returned and nothing attached
PlCreateDone(t) ==
  /\ pl_pc[t] = "creating"
  /\ \E ok \in BOOLEAN :
       IF ok
       THEN /\ pl_remote' = Append(pl_remote, Playlist(pl_title[t], TRUE))
            /\ pl_cache' = cache_put(pl_cache, pl_title[t], Len(pl_remote) + 1)
            /\ pl_id' = [pl_id EXCEPT ![t] = Len(pl_remote) + 1]
            /\ pl_pc' = [pl_pc EXCEPT ![t] = "attaching"]
       ELSE /\ pl_pc' = [pl_pc EXCEPT ![t] = "done"]
            /\ UNCHANGED <<pl_remote, pl_cache, pl_id>>
  /\ UNCHANGED <<pl_initialized, pl_title>>
  /\ PlaylistFrame

\* add_video_to_playlist(pl_id, video_id) returned: the video is in the
\* playlist, or the insert failed and was logged
PlAttachDone(t) ==
  /\ pl_pc[t] = "attaching"
  /\ \E ok \in BOOLEAN :
       pl_remote' = IF ok
                    THEN [pl_remote EXCEPT ![pl_id[t]].videos = @ \cup {t}]
                    ELSE pl_remote
  /\ pl_pc' = [pl_pc EXCEPT ![t] = "done"]
  /\ UNCHANGED <<pl_cache, pl_initialized, pl_title, pl_id>>
  /\ PlaylistFrame

NextPlaylist ==
  \/ \E t \in Threads : PlCall(t)
  \/ \E t \in Threads : PlListDone(t)
  \/ \E t \in Threads : PlLookup(t)
  \/ \E t \in Threads : PlCreateDone(t)
  \/ \E t \in Threads : PlAttachDone(t)

SpecPlaylist == InitPlaylist /\ [][NextPlaylist]_vars

(* ------------------------------ sync manager ------------------------- *)

\* an item of the uploads playlist: contentDetails.videoId, snippet.title
RemoteItem(vid, title) == [video_id |-> vid, title |-> title]
RemoteIds == 1..(MaxVideos + 1)
RemoteTitles == {"t1"}

\* what fetch_all_remote_videos may return (an id may come twice)
RemoteListings ==
  UNION {[1..n -> {RemoteItem(v, t) : v \in RemoteIds, t \in RemoteTitles}] :
           n \in 0..MaxRemote}

\* {x.video_id: x for x in l}: the last element of a video id wins
DictByVideoId(l) ==
  [k \in {l[i].video_id : i \in DOMAIN l} |->
     l[CHOOSE i \in DOMAIN l :
         /\ l[i].video_id = k
         /\ \A j \in DOMAIN l : l[j].video_id = k => j <= i]]

remote_map(remote_videos) == DictByVideoId(remote_videos)

\* r.get("status") == "success" and r.get("video_id")
HasUpload(r) == r.status = "success" /\ r.video_id # NO_VIDEO

\* only successful uploads that have a video_id
local_map(local_records) == DictByVideoId(SelectSeq(local_records, HasUpload))

\* a difference that takes nothing away
all_of_first(a, b) == a

common_ids(remote_ids, local_ids) == remote_ids \cap local_ids
missing_local_ids(remote_ids, local_ids) == remote_ids \ local_ids
missing_remote_ids(local_ids, remote_ids) == local_ids \ remote_ids

SyncEntry(vid, title, path, status) ==
  [video_id |-> vid, remote_title |-> title, local_path |-> path,
   status |-> status]

\* compare(): the three lists, each in the order of a set iteration
compare(remote_videos, local_records) ==
  LET rm == remote_map(remote_videos)
      lm == local_map(local_records)
  IN  [remote |-> remote_videos,
       in_sync |->
         {SyncEntry(v, rm[v].title, lm[v].file_path, "OK") :
            v \in common_ids(DOMAIN rm, DOMAIN lm)},
       missing_in_local |->
         {SyncEntry(v, rm[v].title, "N/A", "MISSING_LOCAL") :
            v \in missing_local_ids(DOMAIN rm, DOMAIN lm)},
       missing_in_remote |->
         {SyncEntry(v, "N/A", lm[v].file_path, "MISSING_REMOTE") :
            v \in missing_remote_ids(DOMAIN lm, DOMAIN rm)}]

InitSync ==
  /\ PlaylistIdle
  /\ NoReport
  /\ rows = <<>>
  /\ legacy_json = <<>>
  /\ now = 1
  /\ phase = "open"
  /\ NoRun

Compare ==
  /\ phase = "open"
  /\ \E remote_videos \in RemoteListings, p \in get_all_records(rows) :
       sync_report' = compare(remote_videos, [i \in DOMAIN rows |-> rows[p[i]]])
  /\ UNCHANGED <<rows, legacy_json, now, runvars, plvars, fix_result, pending, cmdvars>>

NextSync ==
  \/ AddRecord
  \/ ImportRecords
  \/ Compare

SpecSync == InitSync /\ [][NextSync]_vars

\* cursor.rowcount > 0 of DELETE FROM uploads WHERE file_hash = ?
deleted_by_hash(rs, hash) == Len(delete_record(rs, hash)) < Len(rs)

\* cursor.rowcount > 0 of DELETE FROM uploads WHERE file_path = ?
deleted_by_path(rs, path) == Len(delete_record_by_path(rs, path)) < Len(rs)

\* cursor.rowcount > 0 of DELETE FROM uploads WHERE video_id = ?
deleted_by_video_id(rs, vid) == Len(delete_record_by_video_id(rs, vid)) < Len(rs)

\* a fix that stops after its first item
RECURSIVE fix_first_only(_, _)
fix_first_only(rs, items) ==
  IF items = <<>> THEN rs
  ELSE delete_record_by_video_id(rs, Head(items).video_id)

\* fix_missing_remote: the rows it leaves
RECURSIVE fix_rows(_, _)
fix_rows(rs, items) ==
  IF items = <<>> THEN rs
  ELSE fix_rows(delete_record_by_video_id(rs, Head(items).video_id),
                Tail(items))

\* fix_missing_remote: the pair (deleted, failed) it returns
RECURSIVE fix_counts(_, _)
fix_counts(rs, items) ==
  IF items = <<>> THEN <<0, 0>>
  ELSE LET c == fix_counts(delete_record_by_video_id(rs, Head(items).video_id),
                           Tail(items))
       IN  IF deleted_by_video_id(rs, Head(items).video_id)
           THEN <<c[1] + 1, c[2]>> ELSE <<c[1], c[2] + 1>>

\* the lists a set iteration may build from a set of entries
ListsOf(entries) ==
  {l \in [1..Cardinality(entries) -> entries] :
     \A i, j \in DOMAIN l : i # j => l[i] # l[j]}

\* sync --fix -y: compare(), and with a non-empty missing_remote
\* fix_missing_remote(missing_remote)
SyncFix ==
  /\ phase = "open"
  /\ \E remote_videos \in RemoteListings, p \in get_all_records(rows) :
       LET report == compare(remote_videos, [i \in DOMAIN rows |-> rows[p[i]]])
       IN  /\ report.missing_in_remote # {}
           /\ sync_report' = report
           /\ \E items \in ListsOf(report.missing_in_remote) :
                /\ rows' = fix_rows(rows, items)
                /\ fix_result' = [items |-> items,
                                  counts |-> fix_counts(rows, items)]
  /\ UNCHANGED <<legacy_json, now, runvars, plvars, pending, cmdvars>>

NextFix ==
  \/ AddRecord
  \/ ImportRecords
  \/ SyncFix

SpecFix == InitSync /\ [][NextFix]_vars

(* ------------------------------ properties ---------------------------- *)

\* the rows of hash h exist and all have this status
HashHasStatus(rs, h, status) ==
  /\ RowsWithHash(rs, h) # {}
  /\ \A i \in RowsWithHash(rs, h) : rs[i].status = status

Raised == HttpErrors \cup {"exception", "retry_error"}

\* C1: once the stop signal is latched, no upload_video call is started for
\* the rest of the run, whatever stage the other workers were in.
C1_NoUploadStartsAfterLatch ==
  [][stop_event => \A f \in Files : calls'[f] = calls[f]]_vars

\* C2: a file whose upload was in flight when another worker latched the
\* stop is recorded when its upload ends: a success row when the upload
\* returned a video id, a failed row when it raised an error of any kind.
C2_InFlightFileRecorded ==
  [][\A f \in inflight_at_latch :
       (pc[f] = "uploading" /\ pc'[f] # "uploading") =>
         /\ outcome'[f] = "ok" => HashHasStatus(rows', file_hash[f], "success")
         /\ outcome'[f] \in Raised => HashHasStatus(rows', file_hash[f], "failed")]_vars

\* C3: when a run that is no dry-run returns, the store holds a row for the
\* hash of every file whose upload was started: success when the upload
\* returned a video id, failed in every other outcome.
C3_EveryStartedUploadRecorded ==
  (phase = "returned" /\ ~dry_run) =>
    \A f \in started :
      /\ outcome[f] = "ok" => HashHasStatus(rows, file_hash[f], "success")
      /\ outcome[f] # "ok" => HashHasStatus(rows, file_hash[f], "failed")

\* C4: within one run (force off) upload_video is started at most once per
\* content hash: no two files of the run with the same hash both start one.
C4_OneStartPerHash ==
  ~force => \A f, g \in started : f # g => file_hash[f] # file_hash[g]

\* C5 as claimed: two runs over the same files, every upload of the first
\* succeeding, end with one success row per hash and exactly one
\* upload_video call per file; the second run calls nothing, writes nothing.
C5_ExactlyOneCallPerFile ==
  (phase = "returned" /\ nruns = 2 /\ ~dry_run) =>
    /\ \A f \in Files : InList(f) => calls[f] = 1
    /\ started = {}
    /\ rows = rows_at_start

\* the files of the list with the content hash of f
SameContent(f) == {g \in Files : InList(g) /\ ContentHash(g) = ContentHash(f)}

\* C5 as amended: two runs over the same files, every upload of the first
\* succeeding, end with exactly one row per file hash, a success row; every
\* file was uploaded at most once, at least one file of each hash was, and so
\* was every file whose hash no other file of the list has; the second run
\* starts no upload and leaves the store as it found it.
C5_TwiceIsIdempotent ==
  (phase = "returned" /\ nruns = 2 /\ ~dry_run) =>
    /\ \A f \in Files : InList(f) =>
         /\ Cardinality(RowsWithHash(rows, ContentHash(f))) = 1
         /\ HashHasStatus(rows, ContentHash(f), "success")
         /\ calls[f] <= 1
         /\ \E g \in SameContent(f) : calls[g] = 1
         /\ SameContent(f) = {f} => calls[f] = 1
    /\ started = {}
    /\ rows = rows_at_start

\* two full runs were made, the second one dispatched, over the three files
C5_Witness ==
  /\ phase = "returned" /\ nruns = 2 /\ ~dry_run
  /\ \A f \in 1..3 : pc[f] = "done"
  /\ calls[1] = 1 /\ calls[2] = 0 /\ calls[3] = 1
  /\ Len(rows) = 2

\* C6: a file whose hash comes back empty ends there as a failure: no
\* upload_video call, a failed row for it, the stop signal not latched.
C6_EmptyHashIsTerminalFailure ==
  [][\A f \in Files :
       (~dry_run /\ pc[f] = "hashing" /\ file_hash'[f] = "") =>
         /\ pc'[f] = "done"
         /\ calls'[f] = calls[f]
         /\ \E i \in DOMAIN rows' :
              /\ rows'[i].file_hash = ""
              /\ rows'[i].file_path = PathOf(f)
              /\ rows'[i].status = "failed"
         /\ stop_event' = stop_event]_vars

\* C7: a success row committed during a run is in the store, with status
\* success and its video id, when the run returns.
C7_CommittedSuccessRetained ==
  phase = "returned" =>
    \A c \in committed :
      \E i \in DOMAIN rows :
        /\ rows[i].file_hash = c[1]
        /\ rows[i].status = "success"
        /\ rows[i].video_id = c[2]

\* the store after add_failure(h) then add_record(h), and the other order
FailureThenRecord(rs, h, v) ==
  add_record(add_failure(rs, "p1", h, "boom", now), "p2", h, v, now)
RecordThenFailure(rs, h, v) ==
  add_failure(add_record(rs, "p1", h, v, now), "p2", h, "boom", now)

\* C8: for every hash, a failure then a success leave exactly one row for
\* it, status success with the new video id and no error; a success then a
\* failure leave exactly one row, status failed with no video id and the
\* error text; either way the table grows by at most one row.
C8_UpsertLastWriterWins ==
  phase = "open" =>
    \A h \in Hashes, v \in 1..MaxVideos :
      LET a == FailureThenRecord(rows, h, v)
          b == RecordThenFailure(rows, h, v)
      IN  /\ Cardinality(RowsWithHash(a, h)) = 1
          /\ \A i \in RowsWithHash(a, h) :
               a[i].status = "success" /\ a[i].video_id = v /\ a[i].error = NULL
          /\ Cardinality(RowsWithHash(b, h)) = 1
          /\ \A i \in RowsWithHash(b, h) :
               b[i].status = "failed" /\ b[i].video_id = NO_VIDEO
               /\ b[i].error = "boom"
          /\ Len(a) <= Len(rows) + 1
          /\ Len(b) <= Len(rows) + 1

\* C9: no two rows of the store have the same file_hash.
C9_FileHashUnique ==
  \A i, j \in DOMAIN rows : i # j => rows[i].file_hash # rows[j].file_hash

\* C10: every success row has a video id and no error; every failed row has
\* no video id.
C10_StatusFieldsConsistent ==
  \A i \in DOMAIN rows :
    /\ rows[i].status = "success" =>
         rows[i].video_id # NO_VIDEO /\ rows[i].error = NULL
    /\ rows[i].status = "failed" => rows[i].video_id = NO_VIDEO

\* the events of a log
Events(l) == {l[i] : i \in DOMAIN l}

\* every b of the log has an a before it
Before(l, a, b) ==
  \A i \in DOMAIN l : l[i] = b => \E j \in 1..(i - 1) : l[j] \in a

\* f's task took a step that wrote this event into its log
Logged(f, e) == e \in Events(log'[f]) /\ e \notin Events(log[f])

\* C11: for a file whose upload returned a video id, the success row is
\* committed before the playlist call is issued, and the playlist step has
\* ended (well or not) before upload_thumbnail is issued; no post-processing
\* call is issued for a file whose success row was not committed.
C11_CommitPlaylistThumbnailOrder ==
  [][\A f \in Files :
       /\ Before(log'[f], {"commit"}, "playlist")
       /\ Before(log'[f], {"playlist_ok", "playlist_failed"}, "thumbnail")
       /\ Logged(f, "playlist") =>
            /\ outcome'[f] = "ok"
            /\ \E i \in DOMAIN rows' :
                 /\ rows'[i].file_path = PathOf(f)
                 /\ rows'[i].file_hash = file_hash[f]
                 /\ rows'[i].status = "success"
       /\ Logged(f, "thumbnail") =>
            /\ "commit" \in Events(log[f])
            /\ \E c \in committed : c[1] = file_hash[f]]_vars

\* file 1 went through commit, playlist and thumbnail
C11_Witness ==
  /\ pc[1] = "done"
  /\ log[1] = <<"commit", "playlist", "playlist_ok", "thumbnail", "thumbnail_ok">>
  /\ is_uploaded(rows, ContentHash(1))

\* C12: a failure of the playlist step or of the thumbnail upload leaves the
\* table as it was (the success row unchanged, no failed row written) and the
\* stop signal as it was, and after a failed playlist step the thumbnail is
\* still attempted when there is one.
C12_PostFailuresOnlyLogged ==
  [][\A f \in Files :
       /\ Logged(f, "playlist_failed") =>
            /\ rows' = rows
            /\ stop_event' = stop_event
            /\ HasThumbnail(f) => pc'[f] = "thumbnail" /\ Logged(f, "thumbnail")
       /\ Logged(f, "thumbnail_failed") =>
            /\ rows' = rows
            /\ stop_event' = stop_event]_vars

\* both steps of file 1 failed, its success row is there, nothing is latched
C12_Witness ==
  /\ pc[1] = "done"
  /\ log[1] = <<"commit", "playlist", "playlist_failed", "thumbnail",
                "thumbnail_failed">>
  /\ \E i \in DOMAIN rows :
       rows[i].file_path = PathOf(1) /\ rows[i].status = "success"
  /\ ~stop_event

\* an upload_video call of f ended in this step
CallEnded(f) == pc[f] = "uploading" /\ pc'[f] # "uploading"

\* an attempt of f's upload_video call ended in this step
AttemptEnded(f) ==
  pc[f] = "uploading" /\ (attempts'[f] # attempts[f] \/ pc'[f] # "uploading")

\* C13: the stop signal is latched only by an upload that failed with 403
\* quotaExceeded or 400 uploadLimitExceeded; an upload that failed in any
\* other way (signup required, another HTTP error, a non-HTTP exception,
\* exhausted retries) does not latch it and is recorded as a failed row with
\* the stringified error; playlist and thumbnail steps never latch it.
C13_OnlyQuotaLatches ==
  [][/\ (stop_event' /\ ~stop_event) =>
          \E f \in Files : CallEnded(f) /\ outcome'[f] \in {"quota", "limit"}
     /\ \A f \in Files :
          (CallEnded(f) /\ outcome'[f] \in Raised \ {"quota", "limit"}) =>
            /\ stop_event' = stop_event
            /\ \E i \in DOMAIN rows' :
                 /\ rows'[i].file_hash = file_hash[f]
                 /\ rows'[i].status = "failed"
                 /\ rows'[i].error = ErrText(outcome'[f])]_vars

\* C14: an upload that fails with 403 quotaExceeded (400 uploadLimitExceeded)
\* is not attempted again and makes one history write: the failed row with
\* the error text "Quota Exceeded" ("Account Upload Limit Exceeded").
C14_QuotaWritesOneFixedText ==
  [][\A f \in Files :
       AttemptEnded(f) =>
         /\ attempt_result'[f] = "quota" =>
              /\ CallEnded(f) /\ attempts'[f] = attempts[f]
              /\ rows' = add_failure(rows, PathOf(f), file_hash[f],
                                     "Quota Exceeded", now)
         /\ attempt_result'[f] = "limit" =>
              /\ CallEnded(f) /\ attempts'[f] = attempts[f]
              /\ rows' = add_failure(rows, PathOf(f), file_hash[f],
                                     "Account Upload Limit Exceeded", now)]_vars

\* the upload of file 3 hit the quota, and its row says so
C14_Witness ==
  /\ outcome[3] = "quota"
  /\ \E i \in DOMAIN rows :
       /\ rows[i].file_hash = ContentHash(3)
       /\ rows[i].status = "failed"
       /\ rows[i].error = "Quota Exceeded"

\* C15: within a run the stop signal, once set, stays set; the run returns
\* true exactly when the stop signal was latched during it; a run the quota
\* gate stopped and a run over an empty list return false.
C15_StopLatchedIffHalted ==
  [][/\ (phase = "running" /\ stop_event) => stop_event'
     /\ (phase = "running" /\ phase' = "returned") =>
          (returned' <=> latchers # {})
     /\ (phase = "idle" /\ phase' = "returned") => ~returned']_vars

\* a run returned true after an upload latched the stop
C15_Witness ==
  phase = "returned" /\ returned /\ latchers # {} /\ stop_event

\* f's task left its entry or the wait for a slot in this step
LeftEntry(f) == pc[f] \in {"new", "waiting"} /\ pc'[f] \notin {"new", "waiting"}

\* C16: a worker that finds the stop signal set at entry or right after it
\* got its slot ends its file there: no hash is computed, no upload_video,
\* playlist or thumbnail call is made, and the table is left as it was.
C16_StoppedWorkerTouchesNothing ==
  [][\A f \in Files :
       (LeftEntry(f) /\ stop_event) =>
         /\ pc'[f] = "done"
         /\ file_hash' = file_hash
         /\ calls' = calls
         /\ attempts' = attempts
         /\ log'[f] \in {<<"stopped_at_entry">>, <<"stopped_in_slot">>}
         /\ rows' = rows]_vars

\* a file that waited for its slot found the stop set and ended untouched
C16_Witness ==
  \E f \in Files :
    /\ pc[f] = "done"
    /\ log[f] = <<"stopped_in_slot">>
    /\ file_hash[f] = UNKNOWN /\ calls[f] = 0
    /\ RowsWithHash(rows, ContentHash(f)) = {}

\* C17: after a failed attempt upload_video makes another attempt exactly
\* when the exception is a socket error or timeout or an HTTP error with a
\* status of 408, 429, 500, 502, 503, 504, and fewer than retry_count
\* attempts were made; every other exception ends the call at that attempt
\* and reaches the orchestrator as it is.
C17_RetryOnlyTransportErrors ==
  [][\A f \in Files :
       (AttemptEnded(f) /\ attempt_result'[f] \notin {"ok", "no_id"}) =>
         LET r == attempt_result'[f]
             again == pc'[f] = "uploading" /\ attempts'[f] = attempts[f] + 1
         IN  /\ again <=> (r \in {"socket", "http_transient"}
                           /\ attempts[f] < retry_count)
             /\ r \notin {"socket", "http_transient"} => outcome'[f] = r]_vars

\* f is the only file of its content in the list, and the run found no row
\* of its hash in the store
FreshAlone(f) ==
  /\ InList(f) /\ SameContent(f) = {f}
  /\ RowsWithHash(rows_at_start, ContentHash(f)) = {}

\* C18: when the first attempt of a file's upload fails with HTTP 503 and
\* retry_count >= 2, a second attempt is made and never more than
\* retry_count; when the later attempt proceeds normally, no failed row of
\* the file's hash exists while it runs or after, and it ends with exactly
\* one row for the hash, status success, no error. (The file is the only one
\* of its content and new to the store.)
C18_TransientThenSuccess ==
  \A f \in Files :
    (FreshAlone(f) /\ first_result[f] = "http_transient" /\ retry_count >= 2) =>
      /\ attempts[f] >= 2 /\ attempts[f] <= retry_count
      /\ (attempts[f] = 2 /\ (pc[f] = "uploading" \/ attempt_result[f] = "ok")) =>
           \A i \in RowsWithHash(rows, ContentHash(f)) : rows[i].status # "failed"
      /\ (attempts[f] = 2 /\ attempt_result[f] = "ok") =>
           /\ Cardinality(RowsWithHash(rows, ContentHash(f))) = 1
           /\ \A i \in RowsWithHash(rows, ContentHash(f)) :
                rows[i].status = "success" /\ rows[i].error = NULL

\* file 3: 503 on the first attempt, then a normal second attempt; the run
\* returned
C18_Witness ==
  /\ phase = "returned" /\ FreshAlone(3)
  /\ first_result[3] = "http_transient" /\ attempt_result[3] = "ok"
  /\ attempts[3] = 2
  /\ HashHasStatus(rows, ContentHash(3), "success")

\* the wait after attempt k: 2^(k-1) seconds, not under 2, not over 60
ClampedWait(k) ==
  IF Pow2(k - 1) < 2 THEN 2 ELSE IF Pow2(k - 1) > 60 THEN 60 ELSE Pow2(k - 1)

RECURSIVE SumOfWaits(_)
SumOfWaits(n) == IF n = 0 THEN 0 ELSE ClampedWait(n) + SumOfWaits(n - 1)

\* C19: a transient failure that never clears is attempted exactly
\* retry_count times; the wait after attempt k is 2^(k-1) seconds kept within
\* 2 and 60, so an upload_video call that made n attempts has waited the sum
\* of the first n - 1 such waits, between 2(n-1) and 60(n-1) seconds.
C19_BackoffWaits ==
  \A f \in Files :
    attempts[f] >= 1 =>
      /\ attempts[f] <= retry_count
      /\ outcome[f] = "retry_error" => attempts[f] = retry_count
      /\ waited[f] = SumOfWaits(attempts[f] - 1)
      /\ waited[f] >= 2 * (attempts[f] - 1)
      /\ waited[f] <= 60 * (attempts[f] - 1)

\* eight attempts that all failed with 503: waits 2+2+4+8+16+32+60
C19_Witness ==
  \E f \in Files :
    /\ outcome[f] = "retry_error" /\ attempt_result[f] = "http_transient"
    /\ retry_count = 8 /\ attempts[f] = 8
    /\ waited[f] = 124

\* the files that hold a slot
SlotHolders == {f \in Files : pc[f] \in {"hashing", "uploading", "playlist", "thumbnail"}}

\* C20: at every moment of a run at most workers files hold a slot, and every
\* file that ended, on whatever path, gave its slot back: the free slots and
\* the held ones add up to workers, so a file waits only while workers other
\* files hold slots, and every waiting file gets its slot in the end.
C20_SlotsBoundedAndReleased ==
  /\ [](phase = "running" =>
          /\ Cardinality(SlotHolders) <= workers
          /\ sem + Cardinality(SlotHolders) = workers)
  /\ []((phase = "returned" /\ \E f \in Files : pc[f] = "done") => sem = workers)
  /\ \A f \in Files : (pc[f] = "waiting") ~> (pc[f] = "done")

\* with one worker, the second file waited, got the slot the first gave back,
\* and ended
C20_Witness ==
  /\ workers = 1 /\ Len(video_files) = 2
  /\ \A i \in 1..2 : pc[video_files[i]] = "done"
  /\ calls[video_files[2]] = 1
  /\ sem = 1

\* the files of the list in the folder of f, and those whose name is not
\* after f's
FolderMates(f) == {g \in Files : InList(g) /\ ParentOf(g) = ParentOf(f)}
NotAfter(f) == {g \in FolderMates(f) : NameOf(g) <= NameOf(f)}

\* C21: the (index, total) handed to the metadata builder for a file is its
\* rank by name among the files of the batch in its folder and the number of
\* those files, fixed when the run starts, whatever the order of the input
\* list, the number of workers and the order in which the tasks proceed.
C21_OrdinalsByNameWithinFolder ==
  /\ phase = "running" =>
       \A f \in Files : InList(f) =>
         /\ f \in DOMAIN folder_map
         /\ folder_map[f] = <<Cardinality(NotAfter(f)), Cardinality(FolderMates(f))>>
  /\ \A f \in Files :
       ordinal[f] # NO_ORDINAL =>
         ordinal[f] = <<Cardinality(NotAfter(f)), Cardinality(FolderMates(f))>>

\* files 1 and 2 share a folder; 1 comes first in the list and was handled
\* first, 2 has the earlier name
C21_Witness ==
  /\ Len(video_files) = 3 /\ video_files[1] = 1 /\ workers = 2
  /\ ordinal[1] = <<2, 2>> /\ ordinal[2] = <<1, 2>> /\ ordinal[3] = <<1, 1>>
  /\ pc[1] = "done" /\ pc[2] = "uploading"

\* C22: a file whose hash has a success row in the store, force being off,
\* ends as a duplicate: no upload_video call, no playlist or thumbnail call,
\* and the table is left exactly as it was.
C22_DuplicateSkippedUntouched ==
  [][\A f \in Files :
       (/\ pc[f] = "hashing" /\ pc'[f] # "hashing"
        /\ ~force
        /\ \E i \in DOMAIN rows :
             rows[i].file_hash = file_hash'[f] /\ rows[i].status = "success") =>
         /\ pc'[f] = "done"
         /\ calls' = calls
         /\ attempts' = attempts
         /\ log' = log
         /\ rows' = rows]_vars

\* file 1, whose hash the store had a success row for, ended without a call
C22_Witness ==
  /\ ~force /\ ~dry_run /\ ~simple_check
  /\ rows_at_start # <<>> /\ rows = rows_at_start
  /\ pc[1] = "done" /\ file_hash[1] = ContentHash(1)
  /\ calls[1] = 0 /\ log[1] = <<>>

\* C23: in a dry-run, whatever the hashing and the metadata generation
\* answer, no upload_video call is made, no playlist or thumbnail call, and
\* no row is written, changed or deleted.
C23_DryRunWritesNothing ==
  [][(dry_run /\ phase = "running") =>
       /\ rows' = rows
       /\ calls' = calls
       /\ log' = log]_vars

\* C24: a run that is no dry-run over a list that is not empty, with
\* used = 1600 x (success rows with a timestamp of today or later) and
\* remaining = max(0, daily_quota_limit - used): when remaining < 1600 it
\* returns at once, no file hashed or uploaded and no row written; otherwise
\* every file of the list is dispatched, whatever the size of the list.
C24_QuotaGate ==
  [][(nruns' = nruns + 1 /\ ~dry_run /\ video_files # <<>>) =>
       LET used == 1600 * Cardinality({i \in DOMAIN rows :
                     rows[i].status = "success" /\ rows[i].timestamp >= now'})
           remaining == IF quota_limit - used > 0 THEN quota_limit - used ELSE 0
       IN  IF remaining < 1600
           THEN /\ phase' = "returned" /\ ~returned'
                /\ rows' = rows /\ calls' = calls
                /\ \A f \in Files : pc'[f] = "absent" /\ file_hash'[f] = UNKNOWN
           ELSE /\ phase' = "running"
                /\ \A f \in Files : InList(f) => pc'[f] = "new"]_vars

\* a quota of two uploads and three files: all dispatched on day 1; the
\* second run, a day later, is dispatched again
C24_Witness ==
  /\ quota_limit = 2 * COST_PER_UPLOAD /\ Len(video_files) = 3
  /\ nruns = 2 /\ now = 2 /\ phase = "running"
  /\ Len(rows) = 2

\* the playlists of the account with this title
WithTitle(title) == {i \in DOMAIN pl_remote : pl_remote[i].title = title}

\* C25: when the workers have all resolved one title that the account did
\* not have, every video they attached is in one and the same playlist of
\* that title, the cache maps the title to it, and at most one more playlist
\* of the title was created, which is empty.
C25_OneTitleOnePlaylist ==
  \A title \in RequestTitles :
    (/\ \A t \in Threads : pl_pc[t] = "done" /\ pl_title[t] = title
     /\ \A i \in WithTitle(title) : pl_remote[i].created) =>
      /\ Cardinality(WithTitle(title)) <= 2
      /\ \A i, j \in WithTitle(title) :
           (pl_remote[i].videos # {} /\ pl_remote[j].videos # {}) => i = j
      /\ \A i \in WithTitle(title) :
           pl_remote[i].videos # {} =>
             title \in DOMAIN pl_cache /\ pl_cache[title] = i

\* C26: a playlist is created only for a title no playlist of the account
\* has, on whatever page of the listing: no two playlists of the account
\* have the same title.
C26_NoSecondPlaylistOfATitle ==
  \A i, j \in DOMAIN pl_remote :
    (i # j /\ pl_remote[j].created) => pl_remote[i].title # pl_remote[j].title

\* C27: the legacy records are ingested at most once: an open of a store
\* that was opened before leaves every row as it is, so a row deleted after
\* the migration never reappears.
C27_LaterOpenIgnoresLegacy ==
  [][(Open /\ phase = "open") => rows' = rows]_vars

\* C28: importing the JSON export of the open store into the same store
\* returns (0 imported, N skipped), N the number of rows, and leaves every
\* row as it is.
C28_ImportOfExportSkipsAll ==
  phase = "open" =>
    \A records \in export_records(rows) :
      /\ import_counts(rows, records, now) = <<0, Len(rows)>>
      /\ import_rows(rows, records, now) = rows

\* a store of a success row and a failed row, whose export is re-imported
C28_Witness ==
  /\ phase = "open"
  /\ Len(rows) >= 2
  /\ \E i, j \in DOMAIN rows :
       rows[i].status = "success" /\ rows[j].status = "failed"
  /\ \E records \in export_records(rows) :
       import_counts(rows, records, now) = <<0, Len(rows)>>

\* the k-th record of an import into rs is one the import has to skip: it
\* carries no content hash, or its hash has a row in rs, or an earlier record
\* of the list carries its hash
ToSkip(rs, records, k) ==
  \/ records[k].file_hash \notin Hashes
  \/ \E i \in DOMAIN rs : rs[i].file_hash = records[k].file_hash
  \/ \E j \in 1..(k - 1) : records[j].file_hash = records[k].file_hash

Kept(rs, records) == {k \in DOMAIN records : ~ToSkip(rs, records, k)}

\* C29: import_records returns (imported, skipped) with imported + skipped
\* the number of records; exactly the records without a file_hash or whose
\* hash has a row (also one inserted earlier in the call) are skipped, the
\* others are appended in order; the rows that existed stay as they were.
C29_ImportSkipsExactlyKnownOrHashless ==
  phase = "open" =>
    \A records \in RecordLists :
      LET c == import_counts(rows, records, now)
          after == import_rows(rows, records, now)
          kept == Kept(rows, records)
      IN  /\ c[1] + c[2] = Len(records)
          /\ c[1] = Cardinality(kept)
          /\ Len(after) = Len(rows) + c[1]
          /\ SubSeq(after, 1, Len(rows)) = rows
          /\ \A k \in kept :
               after[Len(rows) + Cardinality({j \in kept : j <= k})]
                 = InsertedRow(records[k], now)

\* an import into a store with rows that inserts one record and skips one
C29_Witness ==
  /\ phase = "open"
  /\ rows # <<>>
  /\ \E records \in RecordLists :
       /\ import_counts(rows, records, now) = <<1, 1>>
       /\ ToSkip(rows, records, 2)
       /\ records[2].file_hash \in Hashes
       /\ Len(import_rows(rows, records, now)) = Len(rows) + 1

IdsOf(entries) == {e.video_id : e \in entries}

\* C30: the three lists compare() returns have pairwise disjoint sets of
\* video ids whose union is remote_ids united with local_ids, local_ids being
\* the video ids of the rows of status success (a row without a video id has
\* none); in_sync is the intersection, missing_local the remote-only and
\* missing_remote the local-only ids; compare() changes no row.
C30_CompareSplitsTheIds ==
  [][sync_report' # sync_report =>
       LET report == sync_report'
           remote_ids == {report.remote[i].video_id : i \in DOMAIN report.remote}
           local_ids == {rows[i].video_id :
                           i \in {n \in DOMAIN rows : rows[n].status = "success"}}
                        \ {NO_VIDEO}
           a == IdsOf(report.in_sync)
           b == IdsOf(report.missing_in_local)
           c == IdsOf(report.missing_in_remote)
       IN  /\ a \cap b = {} /\ a \cap c = {} /\ b \cap c = {}
           /\ a \cup b \cup c = remote_ids \cup local_ids
           /\ a = remote_ids \cap local_ids
           /\ b = remote_ids \ local_ids
           /\ c = local_ids \ remote_ids
           /\ rows' = rows]_vars

\* a compare that found a video on both sides, one only on the channel and
\* one only in the store
C30_Witness ==
  /\ sync_report # NO_REPORT
  /\ sync_report.in_sync # {}
  /\ sync_report.missing_in_local # {}
  /\ sync_report.missing_in_remote # {}

\* the rows of rs whose video id is none of ids, in their order
WithoutVideoIds(rs, ids) ==
  LET Keep(r) == r.video_id \notin ids
  IN  SelectSeq(rs, Keep)

\* C31: fix_missing_remote(items) deletes the rows of exactly the video ids
\* of the items and returns (deleted, failed) with deleted + failed the
\* number of items; no row of a video id of in_sync is removed, a compare()
\* against the same listing afterwards has an empty missing_remote, and a
\* second application to the same items returns (0, number of items).
C31_FixDeletesExactlyTheItems ==
  [][(fix_result' # fix_result \/ Len(rows') < Len(rows)) =>
       LET items == fix_result'.items
           counts == fix_result'.counts
           ids == {items[i].video_id : i \in DOMAIN items}
           kept == IdsOf(sync_report'.in_sync)
       IN  /\ counts[1] + counts[2] = Len(items)
           /\ rows' = WithoutVideoIds(rows, ids)
           /\ \A i \in DOMAIN rows :
                rows[i].video_id \in kept =>
                  \E j \in DOMAIN rows' : rows'[j] = rows[i]
           /\ \A p \in get_all_records(rows') :
                compare(sync_report'.remote,
                        [i \in DOMAIN rows' |-> rows'[p[i]]]).missing_in_remote
                  = {}
           /\ fix_counts(rows', items) = <<0, Len(items)>>
           /\ fix_rows(rows', items) = rows']_vars

\* a fix that deleted a local-only row next to a row that is in sync
C31_Witness ==
  /\ fix_result # NO_RESULT
  /\ fix_result.counts = <<1, 0>>
  /\ sync_report.in_sync # {}
  /\ \E i \in DOMAIN rows : rows[i].video_id \in IdsOf(sync_report.in_sync)

\* C32: the groups of the retry command run one after another; once the run
\* of a group has reported the latched stop signal no later group is
\* dispatched: for the files of the remaining groups no upload_video call
\* is made and no row is written, their failed rows stay as they were.
C32_NoGroupAfterLatchedRun ==
  [][/\ \A f \in Files :
          (\E i \in DOMAIN pending' :
             \E j \in DOMAIN pending'[i] : pending'[i][j] = f) =>
            /\ calls'[f] = 0
            /\ \E n \in DOMAIN rows' : rows'[n] = FailedRow(f)
     /\ (phase = "returned" /\ returned) =>
          /\ pending' = pending
          /\ phase' = phase
          /\ rows' = rows
          /\ calls' = calls]_vars

\* the run of a group returned with the stop latched and a group is left
C32_Witness ==
  /\ phase = "returned"
  /\ returned
  /\ pending # <<>>
  /\ nruns >= 1

\* C33: in every state of the store is_uploaded(h) is true exactly when a
\* row of hash h and status success is held, and is_uploaded_by_path(p)
\* exactly when a row of path p and status success is held; after
\* add_failure for h or delete_record(h), is_uploaded(h) is false, after
\* add_record for (p, h) both are true.
C33_IsUploadedIffSuccessRow ==
  [][/\ \A h \in Hashes :
          is_uploaded(rows', h) <=>
            \E i \in DOMAIN rows' :
              rows'[i].file_hash = h /\ rows'[i].status = "success"
     /\ \A q \in Paths :
          is_uploaded_by_path(rows', q) <=>
            \E i \in DOMAIN rows' :
              rows'[i].file_path = q /\ rows'[i].status = "success"
     /\ \A q \in Paths, h \in Hashes :
          (phase = "open" /\ rows' = add_failure(rows, q, h, "boom", now)) =>
            ~is_uploaded(rows', h)
     /\ \A h \in Hashes :
          (phase = "open" /\ rows' = delete_record(rows, h)) =>
            ~is_uploaded(rows', h)
     /\ \A q \in Paths, h \in Hashes, v \in 1..MaxVideos :
          (phase = "open" /\ rows' = add_record(rows, q, h, v, now)) =>
            is_uploaded(rows', h) /\ is_uploaded_by_path(rows', q)]_vars

\* a store in which one hash is uploaded and another has a failed row only
C33_Witness ==
  /\ phase = "open"
  /\ \E h, g \in Hashes :
       /\ is_uploaded(rows, h)
       /\ ~is_uploaded(rows, g)
       /\ \E i \in DOMAIN rows : rows[i].file_hash = g /\ rows[i].status = "failed"
       /\ \E i \in DOMAIN rows : rows[i].file_hash = g /\ rows[i].error = "boom"

\* the rows of rs whose column has another value than key, in their order
Others(rs, column, key) ==
  LET Keep(r) == r[column] # key
  IN  SelectSeq(rs, Keep)

\* C34: delete_record(hash), delete_record_by_path(path) and
\* delete_record_by_video_id(id) each return true exactly when a row has the
\* key; they remove every row of the key and leave the other rows as they
\* are, and the same delete made again returns false.
C34_DeleteRemovesAllOfTheKey ==
  phase = "open" =>
    /\ \A h \in Hashes :
         /\ deleted_by_hash(rows, h) <=> \E i \in DOMAIN rows : rows[i].file_hash = h
         /\ delete_record(rows, h) = Others(rows, "file_hash", h)
         /\ ~deleted_by_hash(delete_record(rows, h), h)
    /\ \A q \in Paths :
         /\ deleted_by_path(rows, q) <=> \E i \in DOMAIN rows : rows[i].file_path = q
         /\ delete_record_by_path(rows, q) = Others(rows, "file_path", q)
         /\ ~deleted_by_path(delete_record_by_path(rows, q), q)
    /\ \A v \in 1..MaxVideos :
         /\ deleted_by_video_id(rows, v) <=> \E i \in DOMAIN rows : rows[i].video_id = v
         /\ delete_record_by_video_id(rows, v) = Others(rows, "video_id", v)
         /\ ~deleted_by_video_id(delete_record_by_video_id(rows, v), v)

\* a store with two rows of one path and a row of another path, one of them
\* with a video id: a delete by path removes two rows and leaves one
C34_Witness ==
  /\ phase = "open"
  /\ \E q \in Paths :
       /\ Len(rows) - Len(delete_record_by_path(rows, q)) = 2
       /\ Len(delete_record_by_path(rows, q)) >= 1
  /\ \E v \in 1..MaxVideos : deleted_by_video_id(rows, v)

\* the gather of the run has returned
Gathered ==
  /\ phase = "returned"
  /\ video_files # <<>>
  /\ \A f \in Files : InList(f) => pc[f] = "done"

\* C38: when process_video_files returns, the overall-progress task has been
\* advanced exactly once per input file, whatever way each file ended: its
\* completed count is the number of files.
C38_OverallAdvancedOncePerFile ==
  Gathered => overall = Len(video_files)

\* the task of f gets its slot in this step, with the stop event clear
TakesSlot(f) ==
  /\ pc[f] \in {"new", "waiting"}
  /\ pc'[f] \notin {"new", "waiting"}
  /\ ~stop_event

\* C36: with simple_check on and force off, a file whose exact path has a
\* success row is skipped before hashing: no hash is computed, upload_video
\* is not called, the store is unchanged. With force on no file is skipped
\* as a duplicate, by path or by hash: every file whose hash was computed
\* reaches metadata generation.
C36_PathCheckSkipsBeforeHashing ==
  [][/\ \A f \in Files :
          (/\ TakesSlot(f)
           /\ simple_check /\ ~force
           /\ \E i \in DOMAIN rows :
                rows[i].file_path = PathOf(f) /\ rows[i].status = "success") =>
            /\ pc'[f] = "done"
            /\ terminal'[f] = <<"duplicate">>
            /\ file_hash'[f] = UNKNOWN
            /\ calls'[f] = calls[f]
            /\ rows' = rows
     /\ force =>
          \A f \in Files :
            /\ \A i \in DOMAIN terminal'[f] : terminal'[f][i] # "duplicate"
            /\ (pc[f] = "hashing" /\ pc'[f] # "hashing") =>
                 ordinal'[f] # NO_ORDINAL]_vars

\* a file skipped by the path check, its hash never computed
C36_Witness ==
  /\ simple_check /\ ~force
  /\ \E f \in Files :
       /\ terminal[f] = <<"duplicate">>
       /\ file_hash[f] = UNKNOWN
       /\ calls[f] = 0

TerminalStates == {"stopped", "duplicate", "previewed", "published", "failed"}

\* process_video_files has returned, every task of the list complete and in
\* one terminal state
ReturnedComplete ==
  /\ phase = "returned"
  /\ \A f \in Files :
       InList(f) =>
         /\ pc[f] = "done"
         /\ Len(terminal[f]) = 1
         /\ terminal[f][1] \in TerminalStates

\* C37: for every file list and every number of workers, with every hash
\* computation, upload attempt and remote call returning or raising, every
\* task completes and process_video_files returns; each file ends in exactly
\* one terminal state (stopped early, duplicate, previewed, published,
\* failed).
C37_EveryRunReturns ==
  (phase = "running") ~> ReturnedComplete

\* a run over two files with one worker has returned, one file published
\* and the other failed
C37_Witness ==
  /\ ReturnedComplete
  /\ workers = 1
  /\ \E f, g \in Files :
       /\ InList(f) /\ InList(g)
       /\ terminal[f] = <<"published">>
       /\ terminal[g] \in {<<"failed">>, <<"stopped">>}

(* ------------------------ the reupload command ------------------------ *)

\* a row an earlier session left for a file
StoredRow(f, status, vid) ==
  Row(PathOf(f), ContentHash(f), IF status = "success" THEN vid ELSE NO_VIDEO,
      1, status, IF status = "success" THEN NULL ELSE "boom")

\* the stores the command may find: rows written by add_upload_record and
\* add_failure, which leave one row per hash, each a success or a failed row
ReuploadStores ==
  {[i \in DOMAIN l |-> StoredRow(l[i], st[i], i)] :
     l \in {m \in FileLists : /\ Len(m) <= MaxStored
                              /\ \A i, j \in DOMAIN m :
                                   i # j => ContentHash(m[i]) # ContentHash(m[j])},
     st \in [1..MaxStored -> {"success", "failed"}]}

\* _resolve_files_to_reupload: the existing files named by path, hash or
\* video id, as list(valid_files) orders them
ResolvedTargets == {l \in FileLists : Len(l) >= 1 /\ Len(l) <= MaxTargets}

\* for f in files_to_process: history.delete_record(calculate_hash(f)),
\* where calculate_hash gives "" for a file it cannot read
RECURSIVE clear_history(_, _, _)
clear_history(rs, files, unreadable) ==
  IF files = <<>> THEN rs
  ELSE clear_history(
         delete_record(rs, IF Head(files) \in unreadable THEN ""
                           ELSE ContentHash(Head(files))),
         Tail(files), unreadable)

InitReupload ==
  /\ rows \in ReuploadStores
  /\ legacy_json = <<>>
  /\ now = 1
  /\ phase = "idle"
  /\ env = "any"
  /\ run_limit = 0
  /\ retry_count = 1
  /\ quota_limit \in {daily_quota_limit, COST_PER_UPLOAD}
  /\ video_files = <<>>
  /\ workers \in 1..MaxWorkers
  /\ dry_run \in BOOLEAN
  /\ force = dry_run
  /\ simple_check = FALSE
  /\ sem = 0
  /\ waitq = <<>>
  /\ stop_event = FALSE
  /\ pc = [f \in Files |-> "absent"]
  /\ file_hash = [f \in Files |-> UNKNOWN]
  /\ calls = [f \in Files |-> 0]
  /\ nvid = VideosOf(rows)
  /\ nruns = 0
  /\ returned = FALSE
  /\ rows_at_start = <<>>
  /\ NoRunHistory
  /\ PlaylistIdle
  /\ NoReport

\* reupload(): the history of the targets is cleared unless dry_run, then
\* process_video_files(files_to_process, ..., dry_run, force=dry_run) begins
Reupload ==
  /\ phase = "idle"
  /\ nruns = 0
  /\ \E files \in ResolvedTargets :
       \E unreadable \in SUBSET {files[i] : i \in DOMAIN files} :
         BeginRun(files, IF dry_run THEN rows
                         ELSE clear_history(rows, files, unreadable))
  /\ rows_before' = rows
  /\ UNCHANGED <<plvars, sync_report, fix_result, pending, xfer>>

NextReupload ==
  \/ Reupload
  \/ \E f \in Files : Enter(f)
  \/ \E f \in Files : Acquire(f)
  \/ \E f \in Files : HashDone(f)
  \/ \E f \in Files : UploadEnd(f)
  \/ \E f \in Files : PlaylistDone(f)
  \/ \E f \in Files : ThumbnailDone(f)
  \/ EndRun

SpecReupload == InitReupload /\ [][NextReupload]_vars

HasRowFor(rs, f) == \E i \in DOMAIN rs : rs[i].file_hash = ContentHash(f)

\* C39: after a non-dry-run reupload command returns, every target file that
\* had a history row before the command still has a row for its hash,
\* whatever the quota gate and the uploads did; a dry-run reupload deletes
\* no row.
C39_ReuploadKeepsARowPerTarget ==
  (phase = "returned" /\ nruns = 1) =>
    IF dry_run
    THEN \A i \in DOMAIN rows_before :
           \E j \in DOMAIN rows : rows[j] = rows_before[i]
    ELSE \A f \in Files :
           (InList(f) /\ HasRowFor(rows_before, f)) => HasRowFor(rows, f)

(* ------------------- one attempt of upload_video ---------------------- *)

\* MediaUploadProgress: the bytes sent so far and the size of the file
Status(sent, total) == [resumable_progress |-> sent, total_size |-> total]

\* the body of the terminal response: a dict, by its keys and its "id"
Response(keys, id) == [keys |-> keys, id |-> id]

\* the terminal responses: a video resource with its id, a body without
\* "id", an empty body
Responses ==
  {Response({"id", "kind"}, v) : v \in 1..MaxVideos}
    \cup {Response({"kind"}, NO_VIDEO), Response({}, NO_VIDEO)}

\* what request.next_chunk() returns, None written <<>>: (status, None)
\* while bytes remain, (None, response) at the end
ChunkResults(x) ==
  {[status |-> <<Status(n, x.total)>>, response |-> <<>>] :
     n \in (x.sent + 1)..(x.total - 1)}
    \cup {[status |-> <<>>, response |-> <<r>>] : r \in Responses}

\* a callback that gets the two numbers the other way round
swapped_args(status) == <<status.total_size, status.resumable_progress>>

\* progress_callback(status.resumable_progress, status.total_size)
progress_args(status) == <<status.resumable_progress, status.total_size>>

\* if response and "id" in response: return response["id"]; else None
video_id_of(response) ==
  IF response.keys # {} /\ "id" \in response.keys THEN response.id
  ELSE NO_VIDEO

\* one turn of the while loop, and the return when the loop ends
after_chunk(x, r) ==
  [x EXCEPT
     !.ncalls = @ + 1,
     !.sent = IF r.status # <<>> THEN r.status[1].resumable_progress ELSE @,
     !.statuses = IF r.status # <<>> THEN Append(@, r.status[1]) ELSE @,
     !.callbacks = IF r.status # <<>> /\ x.has_callback
                   THEN Append(@, progress_args(r.status[1])) ELSE @,
     !.response = r.response,
     !.pc = IF r.response = <<>> THEN "chunk" ELSE "returned",
     !.result = IF r.response = <<>> THEN NO_VIDEO
                ELSE video_id_of(r.response[1])]

InitUpload ==
  /\ rows = <<>>
  /\ legacy_json = <<>>
  /\ now = 1
  /\ phase = "closed"
  /\ NoRun
  /\ PlaylistIdle
  /\ NoReport

UploadFrame ==
  UNCHANGED <<rows, legacy_json, now, runvars, plvars, sync_report,
              fix_result, pending, rows_before>>

\* _execute_upload(request, file_path, progress_callback) is entered:
\* response = None
ExecuteUpload ==
  /\ xfer = NO_TRANSFER
  /\ \E has_callback \in BOOLEAN, total \in 1..MaxBytes :
       xfer' = [pc |-> "chunk", has_callback |-> has_callback,
                total |-> total, sent |-> 0, ncalls |-> 0,
                statuses |-> <<>>, callbacks |-> <<>>,
                response |-> <<>>, result |-> NO_VIDEO]
  /\ UploadFrame

\* status, response = await asyncio.to_thread(request.next_chunk), which
\* returns or raises
NextChunk ==
  /\ xfer # NO_TRANSFER
  /\ xfer.pc = "chunk"
  /\ \/ \E r \in ChunkResults(xfer) : xfer' = after_chunk(xfer, r)
     \/ xfer' = [xfer EXCEPT !.pc = "raised", !.ncalls = @ + 1]
  /\ UploadFrame

NextUpload ==
  \/ ExecuteUpload
  \/ NextChunk

SpecUpload == InitUpload /\ [][NextUpload]_vars

\* C35: one attempt calls the next-chunk primitive until it returns a
\* non-null response; the progress callback is invoked exactly once for each
\* call that returned a progress status, with (bytes sent, total bytes); the
\* attempt returns the video id of the terminal response, or no id when the
\* terminal response carries none.
C35_ChunkLoopAndCallbacks ==
  xfer # NO_TRANSFER =>
    /\ xfer.callbacks =
         IF xfer.has_callback
         THEN [i \in DOMAIN xfer.statuses |->
                 <<xfer.statuses[i].resumable_progress, xfer.total>>]
         ELSE <<>>
    /\ \A i \in DOMAIN xfer.statuses :
         xfer.statuses[i].total_size = xfer.total
    /\ xfer.pc = "chunk" =>
         xfer.response = <<>> /\ xfer.ncalls = Len(xfer.statuses)
    /\ xfer.pc = "returned" =>
         /\ xfer.response # <<>>
         /\ xfer.ncalls = Len(xfer.statuses) + 1
         /\ xfer.result = IF "id" \in xfer.response[1].keys
                          THEN xfer.response[1].id ELSE NO_VIDEO

\* an attempt with a callback returned a video id after two progress
\* statuses
C35_Witness ==
  /\ xfer # NO_TRANSFER
  /\ xfer.pc = "returned"
  /\ xfer.has_callback
  /\ Len(xfer.callbacks) = 2
  /\ xfer.result # NO_VIDEO

\* an attempt ended with a response that carries no id
C35_WitnessNoId ==
  /\ xfer # NO_TRANSFER
  /\ xfer.pc = "returned"
  /\ xfer.result = NO_VIDEO

====
